---- MODULE Spec2Model ----
(***************************************************************************)
(* Document ingestion, chunking and chunk embedding of the kai backend.    *)
(*                                                                         *)
(*   Spec       processDocument (services/documentProcessor.js) run by the *)
(*              upload controller and by the Bull queue worker, over the   *)
(*              Document collection (models/Document.js)                   *)
(*   SpecChunk  DocumentSchema.methods.chunkDocument                       *)
(*   SpecEmbed  EmbeddingService.processDocumentEmbeddings                 *)
(*                                                                         *)
(* Text is a sequence of one-character strings.  A Mongoose document is a  *)
(* local copy of the stored row together with the set of paths modified    *)
(* since it was loaded; save() writes exactly those paths.                 *)
(***************************************************************************)
EXTENDS Integers, Sequences, FiniteSets, TLC

\* ------------------------------------------------------------------ bounds
NumDocs == 2          \* documents that can be uploaded
MaxCalls == 3         \* invocations of processDocument started by callers
NumWorkers == 2       \* invocations that can be in flight at once
MaxTextLen == 5       \* longest text given to chunkDocument
MaxChunkSize == 3     \* largest chunkSize argument
MaxOverlap == 3       \* largest overlap argument
MaxChunks == 3        \* most chunks of a Document given to processDocumentEmbeddings
MaxEmbedRuns == 2     \* runs of processDocumentEmbeddings on the Document

\* ------------------------------------------------------- program constants
Attempts == 3         \* Bull job option attempts
HeaderMinLines == 10  \* lines.length > 10
ShortLine == 50       \* lines[0].length < 50
MinWordLen == 3       \* /\b[a-z]{3,}\b/
TopKeywords == 20     \* .slice(0, 20)

Null == "null"

DocIds == 1 .. NumDocs
MissingId == NumDocs + 1          \* an id no Document carries
Workers == 1 .. NumWorkers

\* ------------------------------------------------------------------- text
Whitespace == {" ", "\n", "\t"}
LowerLetters == {"a", "d", "e", "h", "i", "l", "o", "t"}
UpperLetters == {"O"}
Digits == {"0"}
WordChars == LowerLetters \cup UpperLetters \cup Digits \cup {"_"}

\* String.prototype.toLowerCase on one character
LowerChar(c) == IF c = "O" THEN "o" ELSE c

toLowerCase(s) == [i \in 1 .. Len(s) |-> LowerChar(s[i])]

\* text.replace(/\s+/g, ' ')
RECURSIVE CollapseWhitespace(_)
CollapseWhitespace(s) ==
  IF s = <<>> THEN <<>>
  ELSE IF Head(s) \in Whitespace
       THEN IF Len(s) > 1 /\ s[2] \in Whitespace
            THEN CollapseWhitespace(Tail(s))
            ELSE <<" ">> \o CollapseWhitespace(Tail(s))
       ELSE <<Head(s)>> \o CollapseWhitespace(Tail(s))

\* processed.replace(/[¡|l]/g, 'i') then processed.replace(/[0O]/g, 'o')
FixOcrChar(c) ==
  IF c \in {"¡", "|", "l"} THEN "i"
  ELSE IF c \in {"0", "O"} THEN "o"
  ELSE c

FixOcr(s) == [i \in 1 .. Len(s) |-> FixOcrChar(s[i])]

\* processed.split('\n')
RECURSIVE SplitLines(_, _)
SplitLines(s, cur) ==
  IF s = <<>> THEN <<cur>>
  ELSE IF Head(s) = "\n" THEN <<cur>> \o SplitLines(Tail(s), <<>>)
  ELSE SplitLines(Tail(s), Append(cur, Head(s)))

\* lines.join('\n')
RECURSIVE JoinLines(_)
JoinLines(lines) ==
  IF lines = <<>> THEN <<>>
  ELSE IF Len(lines) = 1 THEN lines[1]
  ELSE lines[1] \o <<"\n">> \o JoinLines(Tail(lines))

\* lines.shift() / lines.pop() for short first and last lines
StripHeaderFooter(lines) ==
  IF Len(lines) > HeaderMinLines
  THEN LET a == IF Len(lines[1]) < ShortLine THEN Tail(lines) ELSE lines
           b == IF Len(a[Len(a)]) < ShortLine THEN SubSeq(a, 1, Len(a) - 1) ELSE a
       IN b
  ELSE lines

processExtractedText(text) ==
  JoinLines(StripHeaderFooter(SplitLines(FixOcr(CollapseWhitespace(text)), <<>>)))

\* ---------------------------------------------------------------- keywords
stopWords ==
  { <<"t","h","e">>, <<"a","n","d">>, <<"t","h","i","s">>, <<"t","h","a","t">>,
    <<"w","i","t","h">>, <<"f","r","o","m">>, <<"h","a","v","e">>, <<"f","o","r">> }

isStopWord(word) == word \in stopWords

\* the maximal runs of \w characters of s, in order
RECURSIVE WordRuns(_, _)
WordRuns(s, cur) ==
  IF s = <<>> THEN (IF cur = <<>> THEN <<>> ELSE <<cur>>)
  ELSE IF Head(s) \in WordChars THEN WordRuns(Tail(s), Append(cur, Head(s)))
  ELSE (IF cur = <<>> THEN <<>> ELSE <<cur>>) \o WordRuns(Tail(s), <<>>)

\* text.toLowerCase().match(/\b[a-z]{3,}\b/g) || []
MatchWords(text) ==
  SelectSeq(WordRuns(toLowerCase(text), <<>>),
            LAMBDA w : Len(w) >= MinWordLen /\ \A i \in 1 .. Len(w) : w[i] \in LowerLetters)

Count(ws, w) == Cardinality({i \in 1 .. Len(ws) : ws[i] = w})

\* the keys of wordCounts in insertion order
RECURSIVE Distinct(_, _)
Distinct(ws, seen) ==
  IF ws = <<>> THEN <<>>
  ELSE IF Head(ws) \in seen THEN Distinct(Tail(ws), seen)
  ELSE <<Head(ws)>> \o Distinct(Tail(ws), seen \cup {Head(ws)})

\* entries.sort((a, b) => b[1] - a[1]): stable, by count descending
RECURSIVE SortByCount(_, _)
SortByCount(keys, ws) ==
  IF keys = <<>> THEN <<>>
  ELSE LET best == CHOOSE i \in 1 .. Len(keys) :
                     /\ \A k \in 1 .. Len(keys) : Count(ws, keys[k]) <= Count(ws, keys[i])
                     /\ \A k \in 1 .. (i - 1) : Count(ws, keys[k]) < Count(ws, keys[i])
           rest == [k \in 1 .. (Len(keys) - 1) |-> IF k < best THEN keys[k] ELSE keys[k + 1]]
       IN <<keys[best]>> \o SortByCount(rest, ws)

extractKeywords(text) ==
  LET words == SelectSeq(MatchWords(text), LAMBDA w : ~isStopWord(w))
      sorted == SortByCount(Distinct(words, {}), words)
  IN SubSeq(sorted, 1, IF Len(sorted) < TopKeywords THEN Len(sorted) ELSE TopKeywords)

\* ------------------------------------------------ Document rows and workers
FileTypes == {"application/pdf", "image/png", "text/plain", "video/mp4"}

\* the texts a reader (pdf-parse, Tesseract, fs.readFile) returns for a stored file
FileTexts ==
  { <<>>,
    <<"O","l","d"," "," ","t","h","e","\n","O","l","d"," ","h","a","t">> }

\* schema defaults of a Document created by the upload controller
NewDocument(fileType) ==
  [exists |-> TRUE, fileType |-> fileType, processingStatus |-> "pending",
   extractedText |-> <<>>, processingError |-> Null, textLength |-> 0,
   processingCompletedAt |-> Null, searchKeywords |-> <<>>]

NoDocument ==
  [exists |-> FALSE, fileType |-> Null, processingStatus |-> Null,
   extractedText |-> <<>>, processingError |-> Null, textLength |-> 0,
   processingCompletedAt |-> Null, searchKeywords |-> <<>>]

\* how the extraction step of an invocation ended
Outcome(kind, text) == [kind |-> kind, text |-> text]
NoOutcome == Outcome(Null, <<>>)

Idle ==
  [pc |-> "idle", id |-> 0, doc |-> NoDocument, dirty |-> {}, extractedText |-> <<>>,
   error |-> Null, outcome |-> NoOutcome, first |-> Null, wrote |-> <<>>,
   queued |-> FALSE, attemptsMade |-> 0]

VARIABLES
  db,        \* the Document collection: id -> row
  job,       \* worker -> the processDocument invocation it runs
  calls,     \* processDocument invocations started so far
  runs,      \* id -> processDocument invocations finished for that id
  outcomes,  \* id -> extractor outcomes of the finished invocations
  \* chunkDocument (SpecChunk)
  thisText,       \* this.extractedText
  chunkSize,      \* argument chunkSize
  overlap,        \* argument overlap
  chunks,         \* the local array chunks
  startPosition,  \* the local startPosition
  thisChunks,     \* this.chunks, as saved
  chunkPc,        \* "loop" | "saved" | "skipped"
  \* processDocumentEmbeddings (SpecEmbed)
  stored,         \* the chunks of the stored Document; <<>> with found = FALSE: no Document
  found,          \* whether Document.findById finds the Document
  updatedChunks,  \* the local array updatedChunks
  chunkIndex,     \* the loop index i
  embedPc,        \* "idle" | "loop" | "save" | "returned" | "thrown"
  history,        \* one record per run: the chunks it called the API for, and those that failed
  \* one call of a service operation each, as a record with its position pc
  cosine,         \* calculateCosineSimilarity / cosineSimilarity (SpecCosine)
  retrieval,      \* OpenAIService.ultraFastContextRetrieval, its cache and the Documents (SpecContext)
  sources,        \* KnowledgeSourceService.getRelevantContext (SpecContext)
  turn,           \* a conversation turn (SpecTurn)
  cost,           \* OpenAIService.calculateCost (SpecCost)
  search          \* EmbeddingService.findRelevantChunks (SpecSearch)

ingestVars == <<db, job, calls, runs, outcomes>>
chunkVars == <<thisText, chunkSize, overlap, chunks, startPosition, thisChunks, chunkPc>>
embedVars == <<stored, found, updatedChunks, chunkIndex, embedPc, history>>
callVars == <<cosine, retrieval, sources, turn, cost, search>>
vars == <<ingestVars, chunkVars, embedVars, callVars>>

\* no call of the operation
NoCall == [pc |-> "none"]

\* Document.findById(id)
findById(id) == IF id \in DocIds /\ db[id].exists THEN db[id] ELSE NoDocument

\* document.<path> = value: Mongoose marks the path modified when the value changes
Assign(j, path, value) ==
  IF j.doc[path] = value THEN j
  ELSE [j EXCEPT !.doc = [@ EXCEPT ![path] = value], !.dirty = @ \cup {path}]

\* document.save(): $set of the modified paths on the stored row
SavedRow(j) ==
  [f \in DOMAIN db[j.id] |-> IF f \in j.dirty THEN j.doc[f] ELSE db[j.id][f]]

\* mutant: the update is not filtered by _id and reaches every stored row
Save_EveryRow(j) ==
  [d \in DocIds |->
     IF db[d].exists
     THEN [f \in DOMAIN db[d] |-> IF f \in j.dirty THEN j.doc[f] ELSE db[d][f]]
     ELSE db[d]]

Save(j) == [db EXCEPT ![j.id] = SavedRow(j)]

Saved(j) ==
  [j EXCEPT !.dirty = {},
            !.wrote = IF "processingStatus" \in j.dirty
                      THEN Append(@, j.doc.processingStatus) ELSE @]

\* an empty collection and idle workers; no chunkDocument or
\* processDocumentEmbeddings call
Init ==
  /\ db = [d \in DocIds |-> NoDocument]
  /\ job = [w \in Workers |-> Idle]
  /\ calls = 0
  /\ runs = [d \in DocIds |-> 0]
  /\ outcomes = [d \in DocIds |-> {}]
  /\ thisText = <<>> /\ chunkSize = 0 /\ overlap = 0 /\ chunks = <<>>
  /\ startPosition = 0 /\ thisChunks = <<>> /\ chunkPc = "skipped"
  /\ stored = <<>> /\ found = FALSE /\ updatedChunks = <<>> /\ chunkIndex = 0
  /\ embedPc = "idle" /\ history = <<>>
  /\ cosine = NoCall /\ retrieval = NoCall /\ sources = NoCall
  /\ turn = NoCall /\ cost = NoCall /\ search = NoCall

\* a new invocation runs on the first idle worker
Free(w) == job[w].pc \in {"idle", "returned"} \/ (job[w].pc = "thrown" /\ ~job[w].queued)

FreeWorker(w) == Free(w) /\ \A v \in Workers : v < w => ~Free(v)

\* documentController.uploadDocument: Document.create, then processDocument(document._id)
Upload(w, fileType) ==
  /\ FreeWorker(w)
  /\ calls < MaxCalls
  /\ \E d \in DocIds :
       /\ ~db[d].exists
       /\ \A e \in DocIds : e < d => db[e].exists
       /\ db' = [db EXCEPT ![d] = NewDocument(fileType)]
       /\ job' = [job EXCEPT ![w] = [Idle EXCEPT !.pc = "find", !.id = d]]
  /\ calls' = calls + 1
  /\ UNCHANGED <<runs, outcomes>>
  /\ UNCHANGED <<chunkVars, embedVars, callVars>>

\* DocumentProcessingQueue: the worker takes the job { documentId } (first attempt);
\* the id is that of a stored Document, or one that no Document carries
QueueProcess(w, id) ==
  /\ FreeWorker(w)
  /\ id \in DocIds => db[id].exists
  /\ calls < MaxCalls
  /\ job' = [job EXCEPT ![w] = [Idle EXCEPT !.pc = "find", !.id = id,
                                            !.queued = TRUE, !.attemptsMade = 1]]
  /\ calls' = calls + 1
  /\ UNCHANGED <<db, runs, outcomes>>
  /\ UNCHANGED <<chunkVars, embedVars, callVars>>

\* const document = await Document.findById(documentId)
Find(w) ==
  /\ job[w].pc = "find"
  /\ job' = [job EXCEPT ![w] = [@ EXCEPT !.doc = findById(job[w].id), !.dirty = {},
                                         !.first = findById(job[w].id).processingStatus,
                                         !.pc = "begin"]]
  /\ UNCHANGED <<db, calls, runs, outcomes>>
  /\ UNCHANGED <<chunkVars, embedVars, callVars>>

\* if (!document) throw ...; document.processingStatus = 'processing'; await document.save()
Begin(w) ==
  /\ job[w].pc = "begin"
  /\ IF ~job[w].doc.exists
     THEN /\ job' = [job EXCEPT ![w] = [@ EXCEPT !.error = "Document with ID not found",
                                                 !.outcome = Outcome("notFound", <<>>),
                                                 !.pc = "catchFind"]]
          /\ db' = db
     ELSE LET j == Assign(job[w], "processingStatus", "processing")
          IN /\ db' = Save(j)
             /\ job' = [job EXCEPT ![w] = [Saved(j) EXCEPT !.pc = "extract"]]
  /\ UNCHANGED <<calls, runs, outcomes>>
  /\ UNCHANGED <<chunkVars, embedVars, callVars>>

\* the methods the class DocumentProcessor defines
Methods == {"extractTextFromPdf", "extractTextFromImage", "extractTextFromTxt",
            "processExtractedText", "indexDocumentForSearch", "extractKeywords", "isStopWord"}

\* fileType.startsWith('image/'), over the MIME types of the model
ImageTypes == {"image/png", "image/jpeg"}

\* mutant: a file type without an extractor is read by OCR instead of rejected
Extractor_FallsBackToOcr(fileType) ==
  IF fileType = "application/pdf" THEN "extractTextFromPDF"
  ELSE IF fileType \in {"text/plain", "text/csv"} THEN "extractTextFromTextFile"
  ELSE IF fileType \in {"application/vnd.openxmlformats-officedocument.wordprocessingml.document",
                        "application/msword"} THEN "extractTextFromWord"
  ELSE "extractTextFromImage"

\* the extractor method processDocument calls for a file type; Null: unsupported
Extractor(fileType) ==
  IF fileType = "application/pdf" THEN "extractTextFromPDF"
  ELSE IF fileType \in ImageTypes THEN "extractTextFromImage"
  ELSE IF fileType \in {"text/plain", "text/csv"} THEN "extractTextFromTextFile"
  ELSE IF fileType \in {"application/vnd.openxmlformats-officedocument.wordprocessingml.document",
                        "application/msword"} THEN "extractTextFromWord"
  ELSE Null

\* the extraction step: the call of the extractor, which throws a TypeError when
\* the method is not defined, or whose reader (pdf-parse, Tesseract, fs) may throw
Extract(w) ==
  /\ job[w].pc = "extract"
  /\ LET m == Extractor(job[w].doc.fileType)
     IN IF m = Null
        THEN job' = [job EXCEPT ![w] = [@ EXCEPT !.error = "Unsupported file type: " \o job[w].doc.fileType,
                                                  !.outcome = Outcome("unsupported", <<>>),
                                                  !.pc = "catchFind"]]
        ELSE IF m \notin Methods
        THEN job' = [job EXCEPT ![w] = [@ EXCEPT !.error = "this." \o m \o " is not a function",
                                                  !.outcome = Outcome("noMethod", <<>>),
                                                  !.pc = "catchFind"]]
        ELSE \/ \E text \in FileTexts :
                  job' = [job EXCEPT ![w] = [@ EXCEPT !.extractedText = text,
                                                      !.outcome = Outcome("text", text),
                                                      !.pc = "complete"]]
             \/ job' = [job EXCEPT ![w] = [@ EXCEPT !.error = "Error extracting text from image: read failed",
                                                    !.outcome = Outcome("readError", <<>>),
                                                    !.pc = "catchFind"]]
  /\ UNCHANGED <<db, calls, runs, outcomes>>
  /\ UNCHANGED <<chunkVars, embedVars, callVars>>

\* mutant: a Document that already carries this text is returned as it is
Complete_SkipsKnownText(w) ==
  /\ job[w].pc = "complete"
  /\ LET processedText == processExtractedText(job[w].extractedText)
         j1 == Assign(job[w], "extractedText", processedText)
         j2 == IF processedText # <<>> /\ processedText = job[w].doc.extractedText
               THEN j1 ELSE Assign(j1, "processingStatus", "completed")
         j3 == Assign(j2, "textLength", Len(processedText))
         j4 == Assign(j3, "processingCompletedAt", "date")
     IN /\ db' = Save(j4)
        /\ job' = [job EXCEPT ![w] = [Saved(j4) EXCEPT !.pc = "index"]]
  /\ UNCHANGED <<calls, runs, outcomes>>
  /\ UNCHANGED <<chunkVars, embedVars, callVars>>

\* processedText = await this.processExtractedText(extractedText); the document is
\* updated with the text, 'completed', its length and the date, and saved
Complete(w) ==
  /\ job[w].pc = "complete"
  /\ LET processedText == processExtractedText(job[w].extractedText)
         j1 == Assign(job[w], "extractedText", processedText)
         j2 == Assign(j1, "processingStatus", "completed")
         j3 == Assign(j2, "textLength", Len(processedText))
         j4 == Assign(j3, "processingCompletedAt", "date")
     IN /\ db' = Save(j4)
        /\ job' = [job EXCEPT ![w] = [Saved(j4) EXCEPT !.pc = "index"]]
  /\ UNCHANGED <<calls, runs, outcomes>>
  /\ UNCHANGED <<chunkVars, embedVars, callVars>>

\* bookkeeping of a finished invocation of processDocument
Finished(w) ==
  /\ runs' = [d \in DocIds |-> IF d = job[w].id THEN runs[d] + 1 ELSE runs[d]]
  /\ outcomes' = [d \in DocIds |->
                    IF d = job[w].id THEN outcomes[d] \cup {job[w].outcome} ELSE outcomes[d]]

\* the invocation is over: its local document goes out of scope
Ended(j, pc) == [j EXCEPT !.pc = pc, !.doc = NoDocument, !.dirty = {}, !.extractedText = <<>>]

\* await this.indexDocumentForSearch(document); return document
indexDocumentForSearch(w) ==
  /\ job[w].pc = "index"
  /\ LET j == Assign(job[w], "searchKeywords", extractKeywords(job[w].doc.extractedText))
     IN /\ db' = Save(j)
        /\ job' = [job EXCEPT ![w] = Ended(Saved(j), "returned")]
  /\ Finished(w)
  /\ UNCHANGED calls
  /\ UNCHANGED <<chunkVars, embedVars, callVars>>

\* catch: const document = await Document.findById(documentId)
CatchFind(w) ==
  /\ job[w].pc = "catchFind"
  /\ job' = [job EXCEPT ![w] = [@ EXCEPT !.doc = findById(job[w].id), !.dirty = {},
                                         !.pc = "catchSave"]]
  /\ UNCHANGED <<db, calls, runs, outcomes>>
  /\ UNCHANGED <<chunkVars, embedVars, callVars>>

\* the failure write of a catch block: status 'failed' and error.message, saved
FailureWrite(w, next) ==
  /\ IF job[w].doc.exists
     THEN LET j1 == Assign(job[w], "processingStatus", "failed")
              j2 == Assign(j1, "processingError", job[w].error)
          IN /\ db' = Save(j2)
             /\ job' = [job EXCEPT ![w] = Ended(Saved(j2), next)]
     ELSE /\ db' = db
          /\ job' = [job EXCEPT ![w] = Ended(job[w], next)]

\* catch: if (document) { ... await document.save() }; throw error
CatchSave(w) ==
  /\ job[w].pc = "catchSave"
  /\ FailureWrite(w, "thrown")
  /\ Finished(w)
  /\ UNCHANGED calls
  /\ UNCHANGED <<chunkVars, embedVars, callVars>>

\* queue worker catch: const document = await Document.findById(documentId)
QueueCatchFind(w) ==
  /\ job[w].pc = "thrown" /\ job[w].queued
  /\ job' = [job EXCEPT ![w] = [@ EXCEPT !.doc = findById(job[w].id), !.dirty = {},
                                         !.pc = "queueSave"]]
  /\ UNCHANGED <<db, calls, runs, outcomes>>
  /\ UNCHANGED <<chunkVars, embedVars, callVars>>

\* queue worker catch: the failure write, then throw error (Bull handles it)
QueueCatchSave(w) ==
  /\ job[w].pc = "queueSave"
  /\ FailureWrite(w, "queueThrown")
  /\ UNCHANGED <<calls, runs, outcomes>>
  /\ UNCHANGED <<chunkVars, embedVars, callVars>>

\* Bull: the job is run again while attemptsMade < attempts
QueueRetry(w) ==
  /\ job[w].pc = "queueThrown"
  /\ job[w].attemptsMade < Attempts
  /\ calls < MaxCalls
  /\ job' = [job EXCEPT ![w] = [Idle EXCEPT !.pc = "find", !.id = job[w].id,
                                            !.queued = TRUE,
                                            !.attemptsMade = job[w].attemptsMade + 1]]
  /\ calls' = calls + 1
  /\ UNCHANGED <<db, runs, outcomes>>
  /\ UNCHANGED <<chunkVars, embedVars, callVars>>

\* Bull: the job has failed for good ('failed' event)
QueueGiveUp(w) ==
  /\ job[w].pc = "queueThrown"
  /\ job[w].attemptsMade >= Attempts
  /\ job' = [job EXCEPT ![w] = Idle]
  /\ UNCHANGED <<db, calls, runs, outcomes>>
  /\ UNCHANGED <<chunkVars, embedVars, callVars>>

Next ==
  \E w \in Workers :
    \/ \E t \in FileTypes : Upload(w, t)
    \/ \E id \in DocIds \cup {MissingId} : QueueProcess(w, id)
    \/ Find(w)
    \/ Begin(w)
    \/ Extract(w)
    \/ Complete(w)
    \/ indexDocumentForSearch(w)
    \/ CatchFind(w)
    \/ CatchSave(w)
    \/ QueueCatchFind(w)
    \/ QueueCatchSave(w)
    \/ QueueRetry(w)
    \/ QueueGiveUp(w)

Spec == Init /\ [][Next]_vars

\* ------------------------------------------------------ ingestion: claims
Rows == {d \in DocIds : db[d].exists}

\* worker w is inside processDocument(d), or inside the queue's catch block for d
Busy(w, d) ==
  /\ job[w].id = d
  /\ \/ job[w].pc \in {"find", "begin", "extract", "complete", "index", "catchFind", "catchSave"}
     \/ job[w].pc = "thrown" /\ job[w].queued
     \/ job[w].pc = "queueSave"

\* every invocation for d has finished
Quiescent(d) == \A w \in Workers : ~Busy(w, d)

\* processDocument has ended on worker w (returned or thrown)
Over(w) == job[w].pc \in {"returned", "thrown"}

SupportedTypes == {"application/pdf", "text/plain"} \cup ImageTypes

\* C1: a pending Document of a supported type (application/pdf, image/*, text/plain)
\* whose reader neither throws nor returns empty text is moved by processDocument
\* through processing and then completed, through no other status, and ends with
\* non-empty extractedText.  (For a type whose extractor method is missing no
\* reader runs at all, so none throws and none returns empty text.)
C1_SupportedTypeCompletes ==
  \A w \in Workers :
    ( /\ Over(w)
      /\ job[w].id \in Rows
      /\ job[w].first = "pending"
      /\ db[job[w].id].fileType \in SupportedTypes
      /\ job[w].outcome.kind # "readError"
      /\ ~(job[w].outcome.kind = "text" /\ job[w].outcome.text = <<>>)
      /\ runs[job[w].id] = 1 /\ Quiescent(job[w].id) )
    => /\ job[w].wrote = <<"processing", "completed">>
       /\ db[job[w].id].processingStatus = "completed"
       /\ db[job[w].id].extractedText # <<>>

\* C2: extractedText is non-empty exactly when processingStatus is completed
C2_TextIffCompleted ==
  \A d \in Rows : (db[d].extractedText # <<>>) <=> (db[d].processingStatus = "completed")

\* C3: completed and failed are terminal: no step changes a processingStatus that is
\* completed or failed
C3_TerminalStatus ==
  [][\A d \in DocIds :
       db[d].processingStatus \in {"completed", "failed"}
       => db'[d].processingStatus = db[d].processingStatus]_vars

\* the row a single invocation of processDocument leaves for a freshly uploaded
\* Document of type fileType when its extraction step ends with outcome o
SingleRunRow(fileType, o) ==
  IF o.kind = "text"
  THEN [NewDocument(fileType) EXCEPT
          !.processingStatus = "completed",
          !.extractedText = processExtractedText(o.text),
          !.textLength = Len(processExtractedText(o.text)),
          !.processingCompletedAt = "date",
          !.searchKeywords = extractKeywords(processExtractedText(o.text))]
  ELSE [NewDocument(fileType) EXCEPT
          !.processingStatus = "failed",
          !.processingError =
             IF o.kind = "unsupported" THEN "Unsupported file type: " \o fileType
             ELSE IF o.kind = "noMethod" THEN "this." \o Extractor(fileType) \o " is not a function"
             ELSE "Error extracting text from image: read failed"]

ExtractorTypes ==
  {"application/pdf", "text/plain", "text/csv", "application/msword",
   "application/vnd.openxmlformats-officedocument.wordprocessingml.document"} \cup ImageTypes

\* C5: when the fileType has no extractor, processDocument throws the unsupported-type
\* error without running an extractor; once the invocations have finished the
\* Document is failed with that error's message, and its extractedText is empty
\* throughout
C5_UnsupportedFails ==
  /\ \A w \in Workers :
       (job[w].id \in Rows /\ db[job[w].id].fileType \notin ExtractorTypes)
       => /\ job[w].outcome.kind \in {Null, "unsupported"}
          /\ job[w].extractedText = <<>>
          /\ job[w].pc \notin {"complete", "index", "returned"}
          /\ job[w].pc = "thrown"
             => job[w].error = "Unsupported file type: " \o db[job[w].id].fileType
  /\ \A d \in Rows :
       db[d].fileType \notin ExtractorTypes
       => /\ db[d].extractedText = <<>>
          /\ (Quiescent(d) /\ runs[d] >= 1)
             => /\ db[d].processingStatus = "failed"
                /\ db[d].processingError = "Unsupported file type: " \o db[d].fileType
                /\ db[d].processingError # Null

C5_Witness ==
  \E w \in Workers :
    /\ job[w].id \in Rows /\ db[job[w].id].fileType \notin ExtractorTypes
    /\ job[w].pc = "thrown" /\ Quiescent(job[w].id)
    /\ db[job[w].id].processingStatus = "failed"

\* C6: a step changes a Document row only if it creates the row (upload) or is a step
\* of an invocation for that row's id; an invocation for an id that no Document
\* carries changes no row and ends by throwing
C6_OnlyOwnRow ==
  [][/\ \A d \in DocIds :
          db'[d] # db[d]
          => \/ ~db[d].exists
             \/ \E w \in Workers : job[w].id = d /\ job'[w] # job[w]
     /\ \A w \in Workers :
          (job[w].id = MissingId /\ job'[w] # job[w])
          => /\ db' = db
             /\ job'[w].pc # "returned"]_vars

\* two invocations for different ids in flight, each having written its own row
C6_Witness ==
  \E w, v \in Workers :
    /\ job[w].id \in Rows /\ job[v].id \in Rows /\ job[w].id # job[v].id
    /\ job[w].pc = "complete" /\ job[v].pc = "catchSave"
    /\ db[job[w].id].processingStatus = "processing"

\* ------------------------------------------------------------ chunkDocument
Chars == {"a", "b"}

Texts(n) == UNION {[1 .. k -> Chars] : k \in 0 .. n}

\* text.substring(from, to) for 0 <= from <= to <= text.length
substring(s, from, to) == SubSeq(s, from + 1, to)

Min(a, b) == IF a < b THEN a ELSE b

\* mutant: the next window starts one character after the end of the last
NextStart_Gap(endPosition, ov) == endPosition + 1

\* mutant: the next window starts overlap characters before the end of the last
NextStart_Overlap(endPosition, ov) == IF endPosition - ov < 0 THEN 0 ELSE endPosition - ov

\* startPosition = endPosition - overlap;
\* if (startPosition < endPosition) startPosition = endPosition;
NextStart(endPosition, ov) ==
  IF endPosition - ov < endPosition THEN endPosition ELSE endPosition - ov

\* doc.chunkDocument(chunkSize, overlap) is called on a Document with some text
ChunkInit ==
  /\ db = [d \in DocIds |-> NoDocument]
  /\ job = [w \in Workers |-> Idle]
  /\ calls = 0
  /\ runs = [d \in DocIds |-> 0]
  /\ outcomes = [d \in DocIds |-> {}]
  /\ stored = <<>> /\ found = FALSE /\ updatedChunks = <<>> /\ chunkIndex = 0
  /\ embedPc = "idle" /\ history = <<>>
  /\ cosine = NoCall /\ retrieval = NoCall /\ sources = NoCall
  /\ turn = NoCall /\ cost = NoCall /\ search = NoCall
  /\ thisText \in Texts(MaxTextLen)
  /\ chunkSize \in 1 .. MaxChunkSize
  /\ overlap \in 0 .. MaxOverlap
  /\ chunks = <<>>
  /\ startPosition = 0
  /\ thisChunks = <<>>
  /\ chunkPc = "loop"

\* if (!text) return;
ChunkSkip ==
  /\ chunkPc = "loop"
  /\ chunks = <<>> /\ startPosition = 0
  /\ thisText = <<>>
  /\ chunkPc' = "skipped"
  /\ UNCHANGED <<thisText, chunkSize, overlap, chunks, startPosition, thisChunks>>
  /\ UNCHANGED <<ingestVars, embedVars, callVars>>

\* one iteration of while (startPosition < text.length)
ChunkStep ==
  /\ chunkPc = "loop"
  /\ thisText # <<>>
  /\ startPosition < Len(thisText)
  /\ LET endPosition == Min(startPosition + chunkSize, Len(thisText))
     IN /\ chunks' = Append(chunks,
                        [index |-> Len(chunks),
                         text |-> substring(thisText, startPosition, endPosition),
                         startPosition |-> startPosition,
                         endPosition |-> endPosition])
        /\ startPosition' = NextStart(endPosition, overlap)
  /\ UNCHANGED <<thisText, chunkSize, overlap, thisChunks, chunkPc>>
  /\ UNCHANGED <<ingestVars, embedVars, callVars>>

\* the loop ends: this.chunks = chunks; return this.save()
ChunkSave ==
  /\ chunkPc = "loop"
  /\ thisText # <<>>
  /\ ~(startPosition < Len(thisText))
  /\ thisChunks' = chunks
  /\ chunkPc' = "saved"
  /\ UNCHANGED <<thisText, chunkSize, overlap, chunks, startPosition>>
  /\ UNCHANGED <<ingestVars, embedVars, callVars>>

ChunkNext == ChunkSkip \/ ChunkStep \/ ChunkSave

SpecChunk == ChunkInit /\ [][ChunkNext]_vars

\* ---------------------------------------------------- chunkDocument: claims
\* ---------------------------------------------------- chunkDocument: claims
\* the character positions chunk c spans
Span(c) == {p \in 0 .. (Len(thisText) - 1) : c.startPosition <= p /\ p < c.endPosition}

\* C7: for non-empty text, chunkSize >= 1 and 0 <= overlap < chunkSize, the saved
\* chunks carry the indices 0..n-1 in order, start at strictly increasing positions,
\* are each at most chunkSize long, together span exactly [0, len(text)), and each
\* holds text[startPosition, endPosition); the sequence is a function of the input
\* (chunk k spans [k * chunkSize, min((k + 1) * chunkSize, len(text))))
C7_ChunksCoverText ==
  (chunkPc = "saved" /\ chunkSize >= 1 /\ 0 <= overlap /\ overlap < chunkSize)
  => LET n == Len(thisChunks)
     IN /\ n >= 1
        /\ \A k \in 1 .. n : thisChunks[k].index = k - 1
        /\ \A k \in 1 .. (n - 1) :
             thisChunks[k].startPosition < thisChunks[k + 1].startPosition
        /\ \A k \in 1 .. n :
             /\ 0 <= thisChunks[k].startPosition
             /\ thisChunks[k].startPosition < thisChunks[k].endPosition
             /\ thisChunks[k].endPosition <= Len(thisText)
             /\ thisChunks[k].endPosition - thisChunks[k].startPosition <= chunkSize
             /\ thisChunks[k].text =
                  substring(thisText, thisChunks[k].startPosition, thisChunks[k].endPosition)
        /\ UNION {Span(thisChunks[k]) : k \in 1 .. n} = 0 .. (Len(thisText) - 1)
        /\ \A k \in 1 .. n :
             /\ thisChunks[k].startPosition = (k - 1) * chunkSize
             /\ thisChunks[k].endPosition = Min(k * chunkSize, Len(thisText))

C7_Witness ==
  /\ chunkPc = "saved" /\ 0 < overlap /\ overlap < chunkSize
  /\ Len(thisChunks) >= 3
  /\ thisChunks[3].text # thisChunks[1].text

\* C8: for text longer than chunkSize and 0 < overlap < chunkSize, each chunk but
\* possibly the last starts overlap characters before the end of its predecessor
C8_ConsecutiveChunksOverlap ==
  (chunkPc = "saved" /\ Len(thisText) > chunkSize /\ 0 < overlap /\ overlap < chunkSize)
  => \A k \in 1 .. (Len(thisChunks) - 2) :
       thisChunks[k + 1].startPosition = thisChunks[k].endPosition - overlap

\* ------------------------------------------------ processDocumentEmbeddings
ChunkPaths == {"index", "text", "startPosition", "endPosition"}

\* the chunks sub-schema { index, text, startPosition, endPosition }: a value set
\* on document.chunks is cast to it, which keeps the paths of the schema only
CastChunk(c) == [f \in ChunkPaths |-> c[f]]

CastChunks(cs) == [k \in 1 .. Len(cs) |-> CastChunk(cs[k])]

\* chunk.embedding && chunk.embedding.length > 0
HasEmbedding(c) == "embedding" \in DOMAIN c /\ Len(c.embedding) > 0

\* the vector the embedding API returns for a text
Embedding(t) == <<Len(t), IF t # <<>> /\ t[1] = "a" THEN 1 ELSE 2>>

\* { ...chunk.toObject(), embedding }
WithEmbedding(c, e) == [f \in DOMAIN c \cup {"embedding"} |-> IF f = "embedding" THEN e ELSE c[f]]

\* the chunks chunkDocument(1, 0) saves for text t
UnitChunks(t) ==
  [k \in 1 .. Len(t) |->
     [index |-> k - 1, text |-> <<t[k]>>, startPosition |-> k - 1, endPosition |-> k]]

\* processDocumentEmbeddings(documentId) is called for a Document that is missing
\* (found = FALSE) or stored with its chunks
EmbedInit ==
  /\ db = [d \in DocIds |-> NoDocument]
  /\ job = [w \in Workers |-> Idle]
  /\ calls = 0
  /\ runs = [d \in DocIds |-> 0]
  /\ outcomes = [d \in DocIds |-> {}]
  /\ thisText = <<>> /\ chunkSize = 0 /\ overlap = 0 /\ chunks = <<>>
  /\ startPosition = 0 /\ thisChunks = <<>> /\ chunkPc = "skipped"
  /\ found \in BOOLEAN
  /\ stored \in {CastChunks(UnitChunks(t)) : t \in Texts(MaxChunks)}
  /\ found = FALSE => stored = <<>>
  /\ updatedChunks = <<>>
  /\ chunkIndex = 0
  /\ embedPc = "idle"
  /\ history = <<>>
  /\ cosine = NoCall /\ retrieval = NoCall /\ sources = NoCall
  /\ turn = NoCall /\ cost = NoCall /\ search = NoCall

\* const document = await Document.findById(documentId);
\* if (!document || !document.chunks || document.chunks.length === 0) throw ...
EmbedStart ==
  /\ embedPc \in {"idle", "returned"}
  /\ Len(history) < MaxEmbedRuns
  /\ history' = Append(history, [called |-> {}, failed |-> {}, before |-> stored])
  /\ updatedChunks' = <<>>
  /\ chunkIndex' = 0
  /\ embedPc' = IF ~found \/ Len(stored) = 0 THEN "thrown" ELSE "loop"
  /\ UNCHANGED <<stored, found>>
  /\ UNCHANGED <<ingestVars, chunkVars, callVars>>

\* one iteration of for (let i = 0; i < document.chunks.length; i++): a chunk with
\* an embedding is pushed as it is; otherwise generateEmbedding(chunk.text) is
\* called, and the chunk is pushed with the embedding, or as it is when the call throws
EmbedChunk ==
  /\ embedPc = "loop"
  /\ chunkIndex < Len(stored)
  /\ LET chunk == stored[chunkIndex + 1]
         run == Len(history)
     IN IF HasEmbedding(chunk)
        THEN /\ updatedChunks' = Append(updatedChunks, chunk)
             /\ history' = history
        ELSE \E ok \in BOOLEAN :
               /\ updatedChunks' =
                    Append(updatedChunks,
                           IF ok THEN WithEmbedding(chunk, Embedding(chunk.text)) ELSE chunk)
               /\ history' = [history EXCEPT
                    ![run].called = @ \cup {chunkIndex},
                    ![run].failed = IF ok THEN @ ELSE @ \cup {chunkIndex}]
  /\ chunkIndex' = chunkIndex + 1
  /\ UNCHANGED <<stored, found, embedPc>>
  /\ UNCHANGED <<ingestVars, chunkVars, callVars>>

\* document.chunks = updatedChunks; await document.save(); return document
EmbedSave ==
  /\ embedPc = "loop"
  /\ ~(chunkIndex < Len(stored))
  /\ stored' = CastChunks(updatedChunks)
  /\ embedPc' = "returned"
  /\ UNCHANGED <<found, updatedChunks, chunkIndex, history>>
  /\ UNCHANGED <<ingestVars, chunkVars, callVars>>

EmbedNext == EmbedStart \/ EmbedChunk \/ EmbedSave

SpecEmbed == EmbedInit /\ [][EmbedNext]_vars

\* ----------------------------------------- processDocumentEmbeddings: claims
\* the positions of the chunks of cs that carry an embedding
Embedded(cs) == {k \in 1 .. Len(cs) : HasEmbedding(cs[k])}

\* the run in progress, or the last one
ThisRun == history[Len(history)]

\* C9: a run over n chunks of which k carry an embedding calls the embedding API
\* exactly n - k times, for the chunks lacking one; when every call succeeds all n
\* stored chunks carry an embedding; and a second run then makes no call
C9_FillsGapsOnly ==
  (embedPc = "returned")
  => /\ ThisRun.called = {k - 1 : k \in (1 .. Len(ThisRun.before)) \ Embedded(ThisRun.before)}
     /\ Cardinality(ThisRun.called) = Len(ThisRun.before) - Cardinality(Embedded(ThisRun.before))
     /\ ThisRun.failed = {} => Embedded(stored) = 1 .. Len(stored)
     /\ (Len(history) = 2 /\ history[1].failed = {}) => ThisRun.called = {}

\* C10: a failed embedding call does not abort the run: the run returns, the chunk
\* whose call failed is stored unchanged and without an embedding, every later chunk
\* is attempted, the chunks embedded in the run are stored with their embedding, and
\* the number, order and texts of the chunks are unchanged
C10_FailureIsolatedPerChunk ==
  /\ (embedPc = "loop" /\ ThisRun.failed # {}) => Len(updatedChunks) = chunkIndex
  /\ (embedPc = "returned" /\ ThisRun.failed # {})
     => /\ Len(stored) = Len(ThisRun.before)
        /\ \A k \in 1 .. Len(stored) :
             /\ CastChunk(stored[k]) = CastChunk(ThisRun.before[k])
             /\ (k - 1) \in ThisRun.failed
                => stored[k] = ThisRun.before[k] /\ ~HasEmbedding(stored[k])
             /\ (k - 1) \in ThisRun.called \ ThisRun.failed
                => HasEmbedding(stored[k])
        /\ \A k \in 1 .. Len(stored) :
             ~HasEmbedding(ThisRun.before[k]) => (k - 1) \in ThisRun.called

\* ------------------------------------------------------ cosine similarity
\* A JavaScript number is a binary floating-point value: a significand of
\* Precision bits (53 in the program) times a power of two whose exponent lies
\* within MaxExponent (1023 in the program) of zero, or an infinity, or NaN.
\* Every operation rounds its exact result to the nearest number, ties to the
\* even significand.  Results below the smallest number are flushed to zero.
Precision == 8
MaxExponent == 6
MaxDim == 2           \* longest vector given to the similarity functions

RECURSIVE Pow2(_)
Pow2(k) == IF k = 0 THEN 1 ELSE 2 * Pow2(k - 1)

Abs(n) == IF n < 0 THEN -n ELSE n

Finite(m, e) == [kind |-> "finite", m |-> m, e |-> e]
Zero == Finite(0, 0)
Infinity == [kind |-> "infinity", m |-> 1, e |-> 0]
NaN == [kind |-> "nan", m |-> 0, e |-> 0]

Negate(x) == [x EXCEPT !.m = -x.m]

\* the sign of a product or quotient given the signs of its operands
Signed(x, negative) == IF negative THEN Negate(x) ELSE x

\* n / d rounded to the nearest integer, ties to even
RoundHalfEven(n, d) ==
  LET q == n \div d
      r == n % d
  IN  IF 2 * r > d \/ (2 * r = d /\ q % 2 = 1) THEN q + 1 ELSE q

\* the number of magnitude m * 2^e, m a significand of Precision bits
InRange(m, e) ==
  IF e + Precision - 1 > MaxExponent THEN Infinity
  ELSE IF e + Precision - 1 < -MaxExponent THEN Zero
  ELSE Finite(m, e)

\* the number nearest to (n / d) * 2^e, for n > 0 and d > 0
RECURSIVE Nearest(_, _, _)
Nearest(n, d, e) ==
  IF n >= Pow2(Precision) * d THEN Nearest(n, 2 * d, e + 1)
  ELSE IF n < Pow2(Precision - 1) * d THEN Nearest(2 * n, d, e - 1)
  ELSE LET m == RoundHalfEven(n, d)
       IN  IF m = Pow2(Precision) THEN InRange(Pow2(Precision - 1), e + 1)
           ELSE InRange(m, e)

\* the number of an integer literal
Number(k) ==
  IF k = 0 THEN Zero ELSE Signed(Nearest(Abs(k), 1, 0), k < 0)

\* x * y
Times(x, y) ==
  IF x.kind = "nan" \/ y.kind = "nan" THEN NaN
  ELSE IF x.kind = "infinity" \/ y.kind = "infinity"
       THEN IF x.m = 0 \/ y.m = 0 THEN NaN
            ELSE Signed(Infinity, (x.m < 0) # (y.m < 0))
  ELSE IF x.m = 0 \/ y.m = 0 THEN Zero
  ELSE Signed(Nearest(Abs(x.m) * Abs(y.m), 1, x.e + y.e), (x.m < 0) # (y.m < 0))

\* x + y
Plus(x, y) ==
  IF x.kind = "nan" \/ y.kind = "nan" THEN NaN
  ELSE IF x.kind = "infinity"
       THEN IF y.kind = "infinity" /\ (x.m < 0) # (y.m < 0) THEN NaN ELSE x
  ELSE IF y.kind = "infinity" THEN y
  ELSE IF x.m = 0 THEN y
  ELSE IF y.m = 0 THEN x
  ELSE LET e == IF x.e < y.e THEN x.e ELSE y.e
           n == x.m * Pow2(x.e - e) + y.m * Pow2(y.e - e)
       IN  IF n = 0 THEN Zero ELSE Signed(Nearest(Abs(n), 1, e), n < 0)

\* x / y
Divide(x, y) ==
  IF x.kind = "nan" \/ y.kind = "nan" THEN NaN
  ELSE IF x.kind = "infinity"
       THEN IF y.kind = "infinity" THEN NaN
            ELSE Signed(Infinity, (x.m < 0) # (y.m < 0))
  ELSE IF y.kind = "infinity" THEN Zero
  ELSE IF y.m = 0 THEN IF x.m = 0 THEN NaN ELSE Signed(Infinity, x.m < 0)
  ELSE IF x.m = 0 THEN Zero
  ELSE Signed(Nearest(Abs(x.m), Abs(y.m), x.e - y.e), (x.m < 0) # (y.m < 0))

\* the integer part of the square root of n
IntSqrt(n) == CHOOSE r \in 0 .. Pow2(Precision) : r * r <= n /\ n < (r + 1) * (r + 1)

\* the number nearest to sqrt(n) * 2^e, for n > 0
RECURSIVE SqrtNearest(_, _)
SqrtNearest(n, e) ==
  IF n < Pow2(2 * Precision - 2) THEN SqrtNearest(4 * n, e - 1)
  ELSE LET r == IntSqrt(n)
           m == IF n > r * r + r THEN r + 1 ELSE r
       IN  IF m = Pow2(Precision) THEN InRange(Pow2(Precision - 1), e + 1)
           ELSE InRange(m, e)

\* Math.sqrt(x)
Sqrt(x) ==
  IF x.kind = "nan" \/ x.m < 0 THEN NaN
  ELSE IF x.kind = "infinity" \/ x.m = 0 THEN x
  ELSE IF x.e % 2 = 0 THEN SqrtNearest(x.m, x.e \div 2)
  ELSE SqrtNearest(2 * x.m, (x.e - 1) \div 2)

\* an argument of the similarity functions: null, or an array of numbers
Vector(items) == [isNull |-> FALSE, items |-> items]
NullVector == [isNull |-> TRUE, items |-> <<>>]

\* the entries the arrays are built from: small integers, a number whose square
\* overflows and a number whose square underflows
Huge == Finite(Pow2(Precision - 1), MaxExponent - Precision)
Tiny == Finite(Pow2(Precision - 1), 2 - MaxExponent - Precision)
Entries == {Number(-1), Zero, Number(3), Huge, Tiny}

Vectors ==
  {NullVector} \cup {Vector(v) : v \in UNION {[1 .. n -> Entries] : n \in 0 .. MaxDim}}

\* vecA.reduce((acc, val, i) => acc + val * vecB[i], 0), up to entry n
RECURSIVE ReduceDot(_, _, _)
ReduceDot(a, b, n) ==
  IF n = 0 THEN Zero ELSE Plus(ReduceDot(a, b, n - 1), Times(a[n], b[n]))

\* utils/vectorUtils.js
calculateCosineSimilarity(vecA, vecB) ==
  IF vecA.isNull \/ vecB.isNull \/ Len(vecA.items) # Len(vecB.items) THEN Zero
  ELSE LET a == vecA.items
           b == vecB.items
           dotProduct == ReduceDot(a, b, Len(a))
           normA == Sqrt(ReduceDot(a, a, Len(a)))
           normB == Sqrt(ReduceDot(b, b, Len(b)))
       IN  IF normA = Zero \/ normB = Zero THEN Zero
           ELSE Divide(dotProduct, Times(normA, normB))

\* the three accumulators of the loop of cosineSimilarity after n iterations
RECURSIVE Accumulate(_, _, _)
Accumulate(v1, v2, n) ==
  IF n = 0 THEN [dotProduct |-> Zero, magnitude1 |-> Zero, magnitude2 |-> Zero]
  ELSE LET acc == Accumulate(v1, v2, n - 1)
       IN  [dotProduct |-> Plus(acc.dotProduct, Times(v1[n], v2[n])),
            magnitude1 |-> Plus(acc.magnitude1, Times(v1[n], v1[n])),
            magnitude2 |-> Plus(acc.magnitude2, Times(v2[n], v2[n]))]

\* mutant: the magnitudes are not multiplied together
Quotient_ByOneMagnitude(dotProduct, magnitude1, magnitude2) ==
  Divide(dotProduct, magnitude1)

\* dotProduct / (magnitude1 * magnitude2)
Quotient(dotProduct, magnitude1, magnitude2) ==
  Divide(dotProduct, Times(magnitude1, magnitude2))

\* EmbeddingService.cosineSimilarity
cosineSimilarity(vector1, vector2) ==
  IF vector1.isNull \/ vector2.isNull \/ Len(vector1.items) # Len(vector2.items)
  THEN Zero
  ELSE LET acc == Accumulate(vector1.items, vector2.items, Len(vector1.items))
           magnitude1 == Sqrt(acc.magnitude1)
           magnitude2 == Sqrt(acc.magnitude2)
       IN  IF magnitude1 = Zero \/ magnitude2 = Zero THEN Zero
           ELSE Quotient(acc.dotProduct, magnitude1, magnitude2)

\* a call of either function on any two arguments
CosineInit ==
  /\ db = [d \in DocIds |-> NoDocument]
  /\ job = [w \in Workers |-> Idle]
  /\ calls = 0
  /\ runs = [d \in DocIds |-> 0]
  /\ outcomes = [d \in DocIds |-> {}]
  /\ thisText = <<>> /\ chunkSize = 0 /\ overlap = 0 /\ chunks = <<>>
  /\ startPosition = 0 /\ thisChunks = <<>> /\ chunkPc = "skipped"
  /\ stored = <<>> /\ found = FALSE /\ updatedChunks = <<>> /\ chunkIndex = 0
  /\ embedPc = "idle" /\ history = <<>>
  /\ cosine \in [pc : {"call"}, vecA : Vectors, vecB : Vectors,
                 fn : {Null}, result : {Zero}]
  /\ retrieval = NoCall /\ sources = NoCall
  /\ turn = NoCall /\ cost = NoCall /\ search = NoCall

CalculateCosineSimilarity ==
  /\ cosine.pc = "call"
  /\ cosine' = [cosine EXCEPT !.pc = "returned", !.fn = "calculateCosineSimilarity",
                              !.result = calculateCosineSimilarity(cosine.vecA, cosine.vecB)]
  /\ UNCHANGED <<ingestVars, chunkVars, embedVars>>
  /\ UNCHANGED <<retrieval, sources, turn, cost, search>>

CosineSimilarity ==
  /\ cosine.pc = "call"
  /\ cosine' = [cosine EXCEPT !.pc = "returned", !.fn = "cosineSimilarity",
                              !.result = cosineSimilarity(cosine.vecA, cosine.vecB)]
  /\ UNCHANGED <<ingestVars, chunkVars, embedVars>>
  /\ UNCHANGED <<retrieval, sources, turn, cost, search>>

CosineNext == CalculateCosineSimilarity \/ CosineSimilarity

SpecCosine == CosineInit /\ [][CosineNext]_vars

\* ------------------------------------------------ cosine similarity: claims
\* the function the call ran, applied to two arguments
Similarity(a, b) ==
  IF cosine.fn = "cosineSimilarity" THEN cosineSimilarity(a, b)
  ELSE calculateCosineSimilarity(a, b)

AllZero(v) == \A k \in 1 .. Len(v.items) : v.items[k] = Zero

\* the squared norm of v, as the functions compute it
SquaredNorm(v) == ReduceDot(v.items, v.items, Len(v.items))

\* x is within 8 units in the last place of 1
NearOne(x) ==
  /\ x.kind = "finite"
  /\ x.e <= 0
  /\ Abs(x.m - Pow2(-x.e)) * Pow2(Precision - 3) <= Pow2(-x.e)

One == Number(1)

\* the parts of C11 that do not depend on rounding
CosineContract ==
  cosine.pc = "returned" =>
    /\ cosine.result = Similarity(cosine.vecB, cosine.vecA)
    /\ (cosine.vecA.isNull \/ cosine.vecB.isNull) => cosine.result = Zero
    /\ (AllZero(cosine.vecA) \/ AllZero(cosine.vecB)) => cosine.result = Zero
    /\ (~cosine.vecA.isNull /\ ~cosine.vecB.isNull
          /\ Len(cosine.vecA.items) # Len(cosine.vecB.items)) => cosine.result = Zero

\* C11 (as stated): cosine similarity is symmetric, is 0 when either vector is
\* null, empty or all-zero, is 0 when the lengths differ, and cos(v, v) is 1 for
\* every non-zero v
C11_CosineSelfIsOne ==
  /\ CosineContract
  /\ (cosine.pc = "returned" /\ cosine.vecA = cosine.vecB
        /\ ~cosine.vecA.isNull /\ ~AllZero(cosine.vecA)) => cosine.result = One

\* C11 (amended): cosine similarity is symmetric, is 0 when either vector is
\* null, empty or all-zero, is 0 when the lengths differ, and cos(v, v) is
\* within rounding error of 1 (8 units in the last place) for every v whose
\* squared norm is computed as a finite non-zero number
C11_CosineSelfIsNearOne ==
  /\ CosineContract
  /\ (cosine.pc = "returned" /\ cosine.vecA = cosine.vecB
        /\ ~cosine.vecA.isNull
        /\ SquaredNorm(cosine.vecA).kind = "finite"
        /\ SquaredNorm(cosine.vecA) # Zero) => NearOne(cosine.result)

\* cos(v, v) was computed for v = [3, -1]: the result is not 1, but near it
C11_Witness ==
  /\ cosine.pc = "returned"
  /\ cosine.vecA = cosine.vecB
  /\ cosine.vecA = Vector(<<Number(3), Number(-1)>>)
  /\ cosine.result # One
  /\ NearOne(cosine.result)

\* -------------------------------------------------- keyword retrieval: text
\* characters that are neither \w nor \s in the texts of the model
NonWord == {".", ":", "/", "?", "\"", ",", "-"}

UpperCase == {"D", "F", "L", "O", "R", "W"}

\* \w
IsWord(c) == c \notin NonWord \cup Whitespace

\* [a-z0-9]
IsLowerOrDigit(c) == IsWord(c) /\ c \notin UpperCase /\ c # "_"

\* String.prototype.toLowerCase
lowerCase(s) ==
  [i \in 1 .. Len(s) |->
     CASE s[i] = "D" -> "d" [] s[i] = "F" -> "f" [] s[i] = "L" -> "l"
       [] s[i] = "O" -> "o" [] s[i] = "R" -> "r" [] s[i] = "W" -> "w"
       [] OTHER -> s[i]]

\* whether sub occurs in s at (1-based) position p
OccursAt(s, sub, p) ==
  /\ p >= 1
  /\ p + Len(sub) - 1 <= Len(s)
  /\ \A k \in 1 .. Len(sub) : s[p + k - 1] = sub[k]

\* String.prototype.includes
includes(s, sub) == \E p \in 1 .. (Len(s) + 1) : OccursAt(s, sub, p)

\* (s.match(new RegExp(sub, 'g')) || []).length from position p on: the
\* occurrences of sub found left to right, none overlapping the one before
RECURSIVE MatchCount(_, _, _)
MatchCount(s, sub, p) ==
  IF p + Len(sub) - 1 > Len(s) THEN 0
  ELSE IF OccursAt(s, sub, p) THEN 1 + MatchCount(s, sub, p + Len(sub))
  ELSE MatchCount(s, sub, p + 1)

\* Array.prototype.join
RECURSIVE join(_, _)
join(parts, sep) ==
  IF parts = <<>> THEN <<>>
  ELSE IF Len(parts) = 1 THEN parts[1]
  ELSE parts[1] \o sep \o join(Tail(parts), sep)

\* Array.prototype.filter and includes, on sequences
RECURSIVE SelectIn(_, _)
SelectIn(seq, keep) ==
  IF seq = <<>> THEN <<>>
  ELSE IF Head(seq) \in keep THEN <<Head(seq)>> \o SelectIn(Tail(seq), keep)
  ELSE SelectIn(Tail(seq), keep)

Range(seq) == {seq[k] : k \in 1 .. Len(seq)}

\* [...new Set(seq)]: the first occurrence of every element, in order
RECURSIVE Unique(_, _)
Unique(seq, seen) ==
  IF seq = <<>> THEN <<>>
  ELSE IF Head(seq) \in seen THEN Unique(Tail(seq), seen)
  ELSE <<Head(seq)>> \o Unique(Tail(seq), seen \cup {Head(seq)})

\* query.replace(/[^\w\s]/g, '')
RECURSIVE StripNonWord(_)
StripNonWord(s) ==
  IF s = <<>> THEN <<>>
  ELSE IF Head(s) \in NonWord THEN StripNonWord(Tail(s))
  ELSE <<Head(s)>> \o StripNonWord(Tail(s))

\* s.split(/\s+/), cur being the piece read so far
RECURSIVE SplitWhitespace(_, _)
SplitWhitespace(s, cur) ==
  IF s = <<>> THEN <<cur>>
  ELSE IF Head(s) \in Whitespace
       THEN IF Len(s) > 1 /\ s[2] \in Whitespace THEN SplitWhitespace(Tail(s), cur)
            ELSE <<cur>> \o SplitWhitespace(Tail(s), <<>>)
  ELSE SplitWhitespace(Tail(s), Append(cur, Head(s)))

techTerms ==
  <<<<"a", "p", "i">>, <<"u", "r", "l">>, <<"b", "a", "s", "e">>, <<"p", "o", "s", "t">>, <<"g",
      "e", "t">>, <<"e", "n", "d", "p", "o", "i", "n", "t">>, <<"r", "e", "q", "u", "e", "s",
          "t">>, <<"r", "e", "s", "p", "o", "n", "s", "e">>, <<"j", "s", "o", "n">>>>

MinKeywordLen == 2

\* OpenAIService.extractKeywordsFromQuery
extractKeywordsFromQuery(query) ==
  IF query = <<>> THEN <<>>
  ELSE LET words == SplitWhitespace(StripNonWord(lowerCase(query)), <<>>)
           keywords == SelectSeq(words, LAMBDA word : Len(word) >= MinKeywordLen)
           hasTechQuery == \E k \in 1 .. Len(keywords) : keywords[k] \in Range(techTerms)
       IN  Unique(IF hasTechQuery
                  THEN keywords \o SelectSeq(techTerms, LAMBDA term : term \notin Range(keywords))
                  ELSE keywords, {})

commonQuestions == <<<<"h", "o", "w">>, <<"w", "h", "a", "t">>, <<"w", "h", "e", "n">>, <<"w",
    "h", "e", "r", "e">>, <<"w", "h", "y">>, <<"w", "h", "o">>>>

\* the keywords of the query, and the question words it includes
SearchKeywords(query) ==
  extractKeywordsFromQuery(query)
    \o SelectSeq(commonQuestions, LAMBDA q : includes(lowerCase(query), q))

\* /url|link|address|endpoint/.test(query.toLowerCase())
isUrlQuery(query) ==
  \E w \in {<<"u", "r", "l">>, <<"l", "i", "n", "k">>, <<"a", "d", "d", "r", "e", "s", "s">>,
      <<"e", "n", "d", "p", "o", "i", "n", "t">>} : includes(lowerCase(query), w)

\* whether a separator of sectionSplitter starts at position p of text:
\* "\n\n" or a full stop and a whitespace character, for a URL query only
\* when no lower-case letter or digit follows
SeparatorAt(text, p, urlQuery) ==
  /\ p + 1 <= Len(text)
  /\ \/ text[p] = "\n" /\ text[p + 1] = "\n"
     \/ text[p] = "." /\ text[p + 1] \in Whitespace
  /\ urlQuery => (p + 2 > Len(text) \/ ~IsLowerOrDigit(text[p + 2]))

\* text.split(sectionSplitter) from position p on, cur being the piece so far
RECURSIVE SplitSections(_, _, _, _)
SplitSections(text, p, cur, urlQuery) ==
  IF p > Len(text) THEN <<cur>>
  ELSE IF SeparatorAt(text, p, urlQuery)
       THEN <<cur>> \o SplitSections(text, p + 2, <<>>, urlQuery)
  ELSE SplitSections(text, p + 1, Append(cur, text[p]), urlQuery)

MinSectionLen == 10

\* doc.extractedText.split(sectionSplitter).filter(section => section.length > 10)
Sections(text, urlQuery) ==
  SelectSeq(SplitSections(text, 1, <<>>, urlQuery), LAMBDA section : Len(section) > MinSectionLen)

\* /http|www|\.com|\.io/.test(sectionLower)
LooksLikeUrl(sectionLower) ==
  \E w \in {<<"h", "t", "t", "p">>, <<"w", "w", "w">>, <<".", "c", "o", "m">>, <<".", "i",
      "o">>} : includes(sectionLower, w)

\* the score of one section: for every keyword, its matches in the section,
\* counted twice for a URL query on a section that looks like a URL
RECURSIVE Score(_, _, _)
Score(section, keywords, urlQuery) ==
  IF keywords = <<>> THEN 0
  ELSE LET sectionLower == lowerCase(section)
           matches == MatchCount(sectionLower, Head(keywords), 1)
       IN  (IF urlQuery /\ LooksLikeUrl(sectionLower) THEN matches * 2 ELSE matches)
             + Score(section, Tail(keywords), urlQuery)

ParagraphBreak == <<"\n", "\n">>

\* the text of section i with the sections before and after it
ContextText(sections, i) ==
  (IF i > 1 THEN sections[i - 1] \o ParagraphBreak ELSE <<>>)
    \o sections[i]
    \o (IF i < Len(sections) THEN ParagraphBreak \o sections[i + 1] ELSE <<>>)

\* --------------------------------------- ultraFastContextRetrieval (pure part)
CacheKeyChars == 30    \* query.substring(0, 30)
TopSections == 5       \* relevantSections.slice(0, 5)
FallbackChars == 500   \* firstParagraph.substring(0, 500)

\* the ids a Document can have, in their sort order, and an id no Document has
RetrievalIds == <<"1", "2">>
UnknownId == "3"
AllIds == RetrievalIds \o <<UnknownId>>

\* the `documents` argument: null, one id, or an array of ids
NullDocuments == [kind |-> "null", ids |-> <<>>]
OneDocument(id) == [kind |-> "id", ids |-> <<id>>]
DocumentArray(ids) == [kind |-> "array", ids |-> ids]

\* docIds.sort(): the ids in the order of their strings (no id occurs twice)
sort(docIds) == SelectSeq(AllIds, LAMBDA id : id \in Range(docIds))

\* `docs_${query.substring(0, 30)}_${docIds.sort().join('_')}`
cacheKey(query, docIds) ==
  <<"d", "o", "c", "s", "_">> \o SubSeq(query, 1, Min(CacheKeyChars, Len(query))) \o <<"_">>
    \o join([k \in 1 .. Len(docIds) |-> <<sort(docIds)[k]>>], <<"_">>)

\* this.cache.get(key): the cached string, or <<>> for undefined
CacheGet(cache, key) ==
  IF \E c \in cache : c.key = key THEN (CHOOSE c \in cache : c.key = key).value ELSE <<>>

\* this.cache.set(key, value)
CacheSet(cache, key, value) ==
  {c \in cache : c.key # key} \cup {[key |-> key, value |-> value]}

\* Document.find({ _id: { $in: docIds } }): the stored Documents among docIds
Found(collection, docIds) ==
  SelectSeq(RetrievalIds, LAMBDA id : id \in Range(docIds) /\ collection[id].exists)

\* doc.originalName || 'Document'
DocName(doc) == IF doc.originalName = <<>> THEN <<"D", "o", "c", "u", "m", "e", "n",
    "t">> ELSE doc.originalName

\* the scored sections of one Document from section i on
RECURSIVE ScoredSections(_, _, _, _, _, _)
ScoredSections(id, doc, sections, i, keywords, urlQuery) ==
  IF i > Len(sections) THEN <<>>
  ELSE LET score == Score(sections[i], keywords, urlQuery)
           rest == ScoredSections(id, doc, sections, i + 1, keywords, urlQuery)
       IN  IF score > 0
           THEN <<[text |-> ContextText(sections, i), score |-> score,
                   docName |-> DocName(doc), doc |-> id, section |-> i]>> \o rest
           ELSE rest

\* relevantSections after the loop over docs
RECURSIVE RelevantSections(_, _, _, _)
RelevantSections(collection, ids, keywords, urlQuery) ==
  IF ids = <<>> THEN <<>>
  ELSE LET doc == collection[Head(ids)]
       IN  (IF doc.extractedText = <<>> THEN <<>>
            ELSE ScoredSections(Head(ids), doc, Sections(doc.extractedText, urlQuery), 1,
                                keywords, urlQuery))
             \o RelevantSections(collection, Tail(ids), keywords, urlQuery)

\* mutant: the sections are left in the order they were found
SortByScore_Unsorted(rs) == rs

\* relevantSections.sort((a, b) => b.score - a.score): descending, stable
RECURSIVE SortByScore(_)
SortByScore(rs) ==
  IF rs = <<>> THEN <<>>
  ELSE LET best == CHOOSE i \in 1 .. Len(rs) :
                     /\ \A j \in 1 .. Len(rs) : rs[j].score <= rs[i].score
                     /\ \A j \in 1 .. (i - 1) : rs[j].score < rs[i].score
       IN  <<rs[best]>>
             \o SortByScore([k \in 1 .. (Len(rs) - 1) |-> IF k < best THEN rs[k] ELSE rs[k + 1]])

\* `From "${s.docName}": ${s.text}`
FormatSection(s) == <<"F", "r", "o", "m", " ", "\"">> \o s.docName \o <<"\"", ":", " ">> \o s.text

\* the end of the match of [^\s]+ that starts at position p
RECURSIVE NonSpaceEnd(_, _)
NonSpaceEnd(text, p) ==
  IF p + 1 > Len(text) \/ text[p + 1] \in Whitespace THEN p ELSE NonSpaceEnd(text, p + 1)

\* text.match(/https?:\/\/[^\s]+/g) from position p on
RECURSIVE UrlMatches(_, _)
UrlMatches(text, p) ==
  IF p > Len(text) THEN <<>>
  ELSE LET scheme == IF OccursAt(text, <<"h", "t", "t", "p", "s", ":", "/", "/">>, p) THEN 8
                     ELSE IF OccursAt(text, <<"h", "t", "t", "p", ":", "/", "/">>, p) THEN 7 ELSE 0
       IN  IF scheme > 0 /\ p + scheme <= Len(text) /\ text[p + scheme] \notin Whitespace
           THEN LET last == NonSpaceEnd(text, p + scheme)
                IN  <<SubSeq(text, p, last)>> \o UrlMatches(text, last + 1)
           ELSE UrlMatches(text, p + 1)

\* mutant: the URL scan is skipped
UrlFallback_Skipped(collection, ids) == <<>>

\* the fallback for URL queries: the URLs of the first Document that has any,
\* labelled with its name; <<>> when no Document has one
RECURSIVE UrlFallback(_, _)
UrlFallback(collection, ids) ==
  IF ids = <<>> THEN <<>>
  ELSE LET doc == collection[Head(ids)]
           urlMatches == UrlMatches(doc.extractedText, 1)
       IN  IF urlMatches # <<>>
           THEN <<"F", "r", "o", "m", " ", "\"">> \o DocName(doc) \o <<"\"", ":", " ", "F", "o",
               "u", "n", "d", " ", "U", "R", "L", "(", "s", ")", ":", " ">> \o join(urlMatches,
                   <<",", " ">>)
           ELSE UrlFallback(collection, Tail(ids))

NothingFound == <<"N", "o", " ", "s", "p", "e", "c", "i", "f", "i", "c", " ", "i", "n", "f", "o",
    "r", "m", "a", "t", "i", "o", "n", " ", "f", "o", "u", "n", "d", " ", "i", "n", " ", "t",
        "h", "e", " ", "d", "o", "c", "u", "m", "e", "n", "t", "s", " ", "f", "o", "r", " ", "t",
            "h", "i", "s", " ", "q", "u", "e", "r", "y", ".">>
RetrievalError == <<"E", "r", "r", "o", "r", " ", "r", "e", "t", "r", "i", "e", "v", "i", "n",
    "g", " ", "d", "o", "c", "u", "m", "e", "n", "t", " ", "c", "o", "n", "t", "e", "n", "t", ".">>

\* firstDoc.extractedText.split('\n\n')[0]
RECURSIVE FirstParagraph(_)
FirstParagraph(text) ==
  IF text = <<>> \/ OccursAt(text, ParagraphBreak, 1) THEN <<>>
  ELSE <<Head(text)>> \o FirstParagraph(Tail(text))

\* what a call returns and does: the result, the cache afterwards, the number
\* of Document queries, and whether the result comes from the cache
Returned(result, cache, reads, fromCache, top) ==
  [result |-> result, cache |-> cache, reads |-> reads, fromCache |-> fromCache, top |-> top]

\* mutant: an empty array of documents is not caught by the guard
NoInput_AllowsEmptyArray(query, documents) == query = <<>> \/ documents.kind = "null"

\* !query || !documents || (Array.isArray(documents) && documents.length === 0)
NoInput(query, documents) ==
  query = <<>> \/ documents.kind = "null"
    \/ (documents.kind = "array" /\ documents.ids = <<>>)

\* OpenAIService.ultraFastContextRetrieval; dbOk: whether the Document query succeeds
ultraFastContextRetrieval(query, documents, collection, cache, dbOk) ==
  IF NoInput(query, documents)
  THEN Returned(<<>>, cache, 0, FALSE, <<>>)
  ELSE
  LET docIds == documents.ids
      key == cacheKey(query, docIds)
      cachedContext == CacheGet(cache, key)
      keywords == SearchKeywords(query)
      urlQuery == isUrlQuery(query)
      docs == Found(collection, docIds)
  IN  IF cachedContext # <<>> THEN Returned(cachedContext, cache, 0, TRUE, <<>>)
      ELSE IF keywords = <<>>
      THEN IF dbOk /\ docs # <<>> /\ collection[docs[1]].extractedText # <<>>
           THEN LET firstParagraph == FirstParagraph(collection[docs[1]].extractedText)
                IN  Returned(SubSeq(firstParagraph, 1, Min(FallbackChars, Len(firstParagraph))),
                             cache, 1, FALSE, <<>>)
           ELSE Returned(<<>>, cache, 1, FALSE, <<>>)
      ELSE IF ~dbOk THEN Returned(RetrievalError, cache, 1, FALSE, <<>>)
      ELSE IF docs = <<>> THEN Returned(<<>>, cache, 1, FALSE, <<>>)
      ELSE
      LET relevantSections == SortByScore(RelevantSections(collection, docs, keywords, urlQuery))
          top == SubSeq(relevantSections, 1, Min(TopSections, Len(relevantSections)))
          topSections == [k \in 1 .. Len(top) |-> FormatSection(top[k])]
      IN  IF topSections = <<>>
          THEN LET urls == IF urlQuery THEN UrlFallback(collection, docs) ELSE <<>>
               IN  Returned(IF urls # <<>> THEN urls ELSE NothingFound, cache, 1, FALSE, <<>>)
          ELSE LET resultContext == join(topSections, ParagraphBreak)
               IN  Returned(resultContext, CacheSet(cache, key, resultContext), 1, FALSE, top)

\* ------------------------------------------------ context retrieval: inputs
MaxRetrievals == 2     \* calls of ultraFastContextRetrieval and getRelevantContext
MaxSources == 2        \* longest list of knowledge sources

SectionX == <<"R", "e", "f", "u", "n", "d", " ", "r", "e", "f", "u", "n", "d", " ", "r", "e",
    "f", "u", "n", "d">>
SectionY == <<"O", "n", "e", " ", "r", "e", "f", "u", "n", "d", " ", "h", "e", "r", "e">>
SectionZ == <<"N", "o", "t", "h", "i", "n", "g", " ", "t", "o", " ", "s", "e", "e">>
SectionU == <<"S", "e", "e", " ", "h", "t", "t", "p", "s", ":", "/", "/", "x", ".", "i", "o",
    "/", "v", "1">>

TextXYZ == SectionX \o ParagraphBreak \o SectionY \o ParagraphBreak \o SectionZ
TextZYX == SectionZ \o ParagraphBreak \o SectionY \o ParagraphBreak \o SectionX
TextYZX == SectionY \o <<".", " ">> \o SectionZ \o <<".", " ">> \o SectionX
TextXZU == SectionX \o ParagraphBreak \o SectionZ \o ParagraphBreak \o SectionU
TextZU == SectionZ \o ParagraphBreak \o SectionU
TextLinkU == <<"L", "i", "n", "k", " ", "t", "o", " ", "h", "t", "t", "p", "s", ":", "/", "/",
    "x", ".", "i", "o", "/", "v", "1">>

DocTexts == {TextXYZ, TextZYX, TextYZX, TextXZU, TextLinkU, <<>>}

StoredDocument(originalName, extractedText) ==
  [exists |-> TRUE, originalName |-> originalName, extractedText |-> extractedText]
NoStoredDocument == [exists |-> FALSE, originalName |-> <<>>, extractedText |-> <<>>]

\* the Document collections: Document 1 with any of the texts, Document 2
\* without originalName
Collections ==
  {[id \in Range(RetrievalIds) |->
      IF id = "1" THEN StoredDocument(<<"f", "a", "q">>, t) ELSE StoredDocument(<<>>, TextZU)] :
     t \in DocTexts}

\* the texts a Document gets when it is processed again
ReprocessTexts == {TextXZU}

LongPrefix == <<"a", " ", "a", " ", "a", " ", "a", " ", "a", " ", "a", " ", "a", " ", "a", " ",
    "a", " ", "a", " ", "a", " ", "a", " ", "a", " ", "a", " ", "a", " ">>

Queries ==
  {<<>>, <<"?">>, <<"r", "e", "f", "u", "n", "d">>, <<"l", "i", "n", "k">>, LongPrefix \o <<"r",
      "e", "f", "u", "n", "d">>, LongPrefix \o <<"l", "i", "n", "k">>}

DocumentArguments ==
  {NullDocuments, DocumentArray(<<>>), DocumentArray(<<"1">>), DocumentArray(<<"2", "1">>),
   OneDocument("1"), DocumentArray(<<UnknownId>>)}

\* ------------------------------------------- ultraFastContextRetrieval: calls
NoRetrieval(collection, cache, n) ==
  [pc |-> "idle", collection |-> collection, cache |-> cache, n |-> n,
   query |-> <<>>, documents |-> NullDocuments, dbOk |-> TRUE,
   result |-> <<>>, reads |-> 0, fromCache |-> FALSE, top |-> <<>>, before |-> cache]

NoContextCall ==
  [pc |-> "idle", query |-> <<>>, list |-> <<>>, isNull |-> FALSE, index |-> 0,
   allContexts |-> <<>>, contributed |-> <<>>, failed |-> <<>>, result |-> <<>>,
   reads |-> 0, fetches |-> 0, before |-> {}]

ContextInit ==
  /\ db = [d \in DocIds |-> NoDocument]
  /\ job = [w \in Workers |-> Idle]
  /\ calls = 0
  /\ runs = [d \in DocIds |-> 0]
  /\ outcomes = [d \in DocIds |-> {}]
  /\ thisText = <<>> /\ chunkSize = 0 /\ overlap = 0 /\ chunks = <<>>
  /\ startPosition = 0 /\ thisChunks = <<>> /\ chunkPc = "skipped"
  /\ stored = <<>> /\ found = FALSE /\ updatedChunks = <<>> /\ chunkIndex = 0
  /\ embedPc = "idle" /\ history = <<>>
  /\ cosine = NoCall
  /\ retrieval \in {NoRetrieval(c, {}, 0) : c \in Collections}
  /\ sources = NoContextCall
  /\ turn = NoCall /\ cost = NoCall /\ search = NoCall

\* no call is in progress
ContextIdle == retrieval.pc \in {"idle", "returned"} /\ sources.pc \in {"idle", "returned"}

\* a call of ultraFastContextRetrieval(query, documents)
Retrieve(query, documents, dbOk) ==
  /\ ContextIdle
  /\ retrieval.n < MaxRetrievals
  /\ \E r \in {ultraFastContextRetrieval(query, documents, retrieval.collection,
                                           retrieval.cache, dbOk)} :
       retrieval' = [retrieval EXCEPT !.pc = "returned", !.n = @ + 1,
                         !.query = query, !.documents = documents, !.dbOk = dbOk,
                         !.result = r.result, !.cache = r.cache, !.reads = r.reads,
                         !.fromCache = r.fromCache, !.top = r.top,
                         !.before = retrieval.cache]
  /\ sources' = NoContextCall
  /\ UNCHANGED <<ingestVars, chunkVars, embedVars>>
  /\ UNCHANGED <<cosine, turn, cost, search>>

\* a Document is processed again and gets another text (processDocument)
Reprocess(id, text) ==
  /\ ContextIdle
  /\ retrieval.n > 0
  /\ retrieval.n < MaxRetrievals
  /\ retrieval.collection[id].exists
  /\ retrieval.collection[id].extractedText # text
  /\ retrieval' = NoRetrieval([retrieval.collection EXCEPT ![id].extractedText = text],
                              retrieval.cache, retrieval.n)
  /\ sources' = NoContextCall
  /\ UNCHANGED <<ingestVars, chunkVars, embedVars>>
  /\ UNCHANGED <<cosine, turn, cost, search>>

\* ------------------------------------- KnowledgeSourceService: knowledge sources
MinParagraphLen == 20  \* p.length > 20
TopParagraphs == 3     \* .slice(0, 3)

Source(sourceType, sourceId, url, content) ==
  [sourceType |-> sourceType, sourceId |-> sourceId, url |-> url, content |-> content]

DocumentSource(id) == Source("document", id, <<>>, <<>>)
WebsiteSource == Source("website", Null, <<"w", ".", "i", "o">>, <<>>)
TextSource == Source("text", Null, <<>>, <<"R", "e", "f", "u", "n", "d", " ", "r", "u", "l", "e",
    "s">>)
OtherSource == Source("video", Null, <<>>, <<"R", "e", "f", "u", "n", "d", " ", "c", "l", "i",
    "p">>)

SourceKinds ==
  {DocumentSource("1"), DocumentSource(UnknownId), WebsiteSource, TextSource, OtherSource}

SourceLists == UNION {[1 .. n -> SourceKinds] : n \in 0 .. MaxSources}

\* the body text of the page axios.get returns, or Null when the request fails
WebBodies == {<<"R", "e", "f", "u", "n", "d", " ", "w", "i", "t", "h", "i", "n", " ", "t", "h",
    "i", "r", "t", "y", " ", "d", "a", "y", "s", "\n", "o", "f", " ", "p", "u", "r", "c", "h",
        "a", "s", "e", ".", " ", "N", "o", "t", "h", "i", "n", "g", " ", "e", "l", "s", "e", " ",
            "o", "n", " ", "t", "h", "i", "s", " ", "p", "a", "g", "e", " ", "a", "t", " ", "a",
                "l", "l", " ">>}
FetchOutcomes == {[ok |-> FALSE, body |-> <<>>]} \cup {[ok |-> TRUE, body |-> b] : b \in WebBodies}
NoFetch == [ok |-> FALSE, body |-> <<>>]

\* String.prototype.trim
RECURSIVE TrimStart(_)
TrimStart(s) == IF s # <<>> /\ Head(s) \in Whitespace THEN TrimStart(Tail(s)) ELSE s

RECURSIVE TrimEnd(_)
TrimEnd(s) ==
  IF s # <<>> /\ s[Len(s)] \in Whitespace THEN TrimEnd(SubSeq(s, 1, Len(s) - 1)) ELSE s

trim(s) == TrimEnd(TrimStart(s))

\* getWebsiteContent on a fetched page: $('body').text().replace(/\s+/g, ' ').trim()
WebsiteText(body) == trim(CollapseWhitespace(body))

\* the number of keywords the paragraph includes
RECURSIVE ParagraphScore(_, _)
ParagraphScore(p, keywords) ==
  IF keywords = <<>> THEN 0
  ELSE (IF includes(lowerCase(p), lowerCase(Head(keywords))) THEN 1 ELSE 0)
         + ParagraphScore(p, Tail(keywords))

\* what a website source adds to allContexts: <<>> for nothing
WebsiteContext(query, source, content) ==
  LET keywords == extractKeywordsFromQuery(query)
      paragraphs == SelectSeq(SplitSections(content, 1, <<>>, FALSE),
                              LAMBDA p : Len(p) > MinParagraphLen)
      scored == SelectSeq([k \in 1 .. Len(paragraphs) |->
                             [text |-> paragraphs[k],
                              score |-> ParagraphScore(paragraphs[k], keywords)]],
                          LAMBDA p : p.score > 0)
      sorted == SortByScore(scored)
      relevantParagraphs ==
        [k \in 1 .. Min(TopParagraphs, Len(sorted)) |-> sorted[k].text]
  IN  IF relevantParagraphs = <<>> THEN <<>>
      ELSE <<"F", "r", "o", "m", " ", "w", "e", "b", "s", "i", "t", "e",
          " ">> \o source.url \o <<":", "\n">> \o join(relevantParagraphs, ParagraphBreak)

\* `From ${source.sourceType} source:\n${content}`
InlineContext(source) ==
  (IF source.sourceType = "text" THEN <<"F", "r", "o", "m", " ", "t", "e", "x", "t", " ", "s",
      "o", "u", "r", "c", "e", ":", "\n">> ELSE <<"F", "r", "o", "m", " ", "q", "a", " ", "s",
          "o", "u", "r", "c", "e", ":", "\n">>)
    \o source.content

\* mutant: a source that fails contributes the message of its error
Contribution_KeepsError(source, query, resolved, fetch, relevantChunks) ==
  IF ~resolved THEN <<"E", "r", "r", "o", "r">>
  ELSE CASE source.sourceType = "document" -> relevantChunks
         [] source.sourceType = "website" -> WebsiteContext(query, source, WebsiteText(fetch.body))
         [] OTHER -> IF source.content # <<>> THEN InlineContext(source) ELSE <<>>

\* what one source adds to allContexts, <<>> for nothing.  resolved: whether
\* getSourceContent returned; relevantChunks: what ultraFastContextRetrieval gives
Contribution(source, query, resolved, fetch, relevantChunks) ==
  IF ~resolved THEN <<>>
  ELSE CASE source.sourceType = "document" -> relevantChunks
         [] source.sourceType = "website" -> WebsiteContext(query, source, WebsiteText(fetch.body))
         [] OTHER -> IF source.content # <<>> THEN InlineContext(source) ELSE <<>>

\* whether getSourceContent(source) returns: the Document exists and is read,
\* the page is fetched, or the source carries its content
Resolves(source, collection, dbOk, fetch) ==
  CASE source.sourceType = "document" ->
         /\ dbOk
         /\ source.sourceId \in Range(RetrievalIds)
         /\ collection[source.sourceId].exists
    [] source.sourceType = "website" -> fetch.ok
    [] source.sourceType \in {"text", "qa"} -> TRUE
    [] OTHER -> FALSE

\* a call of getRelevantContext(query, sources); isNull: sources is null
GetRelevantContext(query, list, isNull) ==
  /\ ContextIdle
  /\ retrieval.n < MaxRetrievals
  /\ isNull => list = <<>>
  /\ sources' = [NoContextCall EXCEPT
                   !.pc = IF list = <<>> THEN "returned" ELSE "loop",
                   !.query = query, !.list = list, !.isNull = isNull, !.index = 1,
                   !.before = retrieval.cache]
  /\ retrieval' = NoRetrieval(retrieval.collection, retrieval.cache, retrieval.n + 1)
  /\ UNCHANGED <<ingestVars, chunkVars, embedVars>>
  /\ UNCHANGED <<cosine, turn, cost, search>>

\* one iteration of the loop over sources: getSourceContent and what follows it,
\* inside the try block.  dbOk: the Document queries succeed; fetch: what
\* axios.get gives
ResolveSource(dbOk, fetch) ==
  /\ sources.pc = "loop"
  /\ sources.index <= Len(sources.list)
  /\ \E source \in {sources.list[sources.index]} :
       /\ source.sourceType = "document" \/ dbOk
       /\ source.sourceType # "website" => fetch = NoFetch
       /\ \E resolved \in {Resolves(source, retrieval.collection, dbOk, fetch)} :
          \E r \in {IF resolved /\ source.sourceType = "document"
                     THEN ultraFastContextRetrieval(sources.query, OneDocument(source.sourceId),
                                                    retrieval.collection, retrieval.cache, dbOk)
                     ELSE Returned(<<>>, retrieval.cache, 0, FALSE, <<>>)} :
          \E context \in {Contribution(source, sources.query, resolved, fetch, r.result)} :
            /\ sources' = [sources EXCEPT
                             !.index = @ + 1,
                             !.allContexts = IF context # <<>> THEN Append(@, context) ELSE @,
                             !.contributed = Append(@, context),
                             !.failed = Append(@, ~resolved),
                             !.reads = @ + r.reads
                                         + (IF source.sourceType = "document" THEN 1 ELSE 0),
                             !.fetches = @ + (IF source.sourceType = "website" THEN 1 ELSE 0)]
            /\ retrieval' = [retrieval EXCEPT !.cache = r.cache]
  /\ UNCHANGED <<ingestVars, chunkVars, embedVars>>
  /\ UNCHANGED <<cosine, turn, cost, search>>

\* return allContexts.join('\n\n')
ContextReturn ==
  /\ sources.pc = "loop"
  /\ sources.index > Len(sources.list)
  /\ sources' = [sources EXCEPT !.pc = "returned",
                                !.result = join(sources.allContexts, ParagraphBreak)]
  /\ UNCHANGED retrieval
  /\ UNCHANGED <<ingestVars, chunkVars, embedVars>>
  /\ UNCHANGED <<cosine, turn, cost, search>>

ContextNext ==
  \/ \E query \in Queries, documents \in DocumentArguments, dbOk \in BOOLEAN :
       Retrieve(query, documents, dbOk)
  \/ \E id \in Range(RetrievalIds), text \in ReprocessTexts : Reprocess(id, text)
  \/ \E query \in {<<>>, <<"r", "e", "f", "u", "n", "d">>}, list \in SourceLists,
      isNull \in BOOLEAN :
       GetRelevantContext(query, list, isNull)
  \/ \E dbOk \in BOOLEAN, fetch \in FetchOutcomes : ResolveSource(dbOk, fetch)
  \/ ContextReturn

SpecContext == ContextInit /\ [][ContextNext]_vars

\* ------------------------------------------------ context retrieval: claims
\* the Documents the last call of ultraFastContextRetrieval asked for
AskedDocs == Found(retrieval.collection, retrieval.documents.ids)

\* the last call of ultraFastContextRetrieval got past its guard and read the Documents
Searched ==
  /\ retrieval.pc = "returned"
  /\ ~NoInput(retrieval.query, retrieval.documents)
  /\ retrieval.dbOk

\* the sections of the one Document asked for, as the call splits them
AskedSections ==
  Sections(retrieval.collection[AskedDocs[1]].extractedText, isUrlQuery(retrieval.query))

\* the case of C12: one Document of three sections; section x has a keyword of
\* the query three times, section y has it once, section z has no keyword, and
\* x and y have no other keyword
ThreeSections(x, y, z) ==
  /\ Searched
  /\ Len(AskedDocs) = 1
  /\ Len(AskedSections) = 3
  /\ {x, y, z} = {1, 2, 3}
  /\ LET keywords == SearchKeywords(retrieval.query)
         Matches(i, kw) == MatchCount(lowerCase(AskedSections[i]), kw, 1)
     IN  /\ \E kw \in Range(keywords) :
              /\ Matches(x, kw) = 3
              /\ Matches(y, kw) = 1
              /\ \A other \in Range(keywords) \ {kw} :
                   Matches(x, other) = 0 /\ Matches(y, other) = 0
         /\ \A kw \in Range(keywords) : Matches(z, kw) = 0

\* the entry of section i of the Document asked for
EntryOf(i) ==
  FormatSection([docName |-> DocName(retrieval.collection[AskedDocs[1]]),
                 text |-> ContextText(AskedSections, i)])

UrlCase(d, u) ==
  /\ Searched
  /\ isUrlQuery(retrieval.query)
  /\ RelevantSections(retrieval.collection, AskedDocs, SearchKeywords(retrieval.query), TRUE)
       = <<>>
  /\ d \in Range(AskedDocs)
  /\ u \in Range(UrlMatches(retrieval.collection[d].extractedText, 1))

\* some Document asked for has a URL in its text
SomeUrl ==
  \E d \in Range(AskedDocs) : UrlMatches(retrieval.collection[d].extractedText, 1) # <<>>

\* the result names a Document and a URL of its text
UrlReturned ==
  \E d \in Range(AskedDocs) :
    \E u \in Range(UrlMatches(retrieval.collection[d].extractedText, 1)) :
      /\ includes(retrieval.result, <<"F", "r", "o", "m", " ",
          "\"">> \o DocName(retrieval.collection[d]) \o <<"\"", ":", " ">>)
      /\ includes(retrieval.result, u)

\* C13: for a URL-related query over Documents in which no section scores above
\* 0 but whose text has an http(s):// URL, the result contains that URL labelled
\* with the Document's name and is not the 'No specific information found'
\* sentinel; the sentinel is returned only when scoring and the URL scan both
\* find nothing
C13_UrlFallback ==
  /\ (\E d \in Range(RetrievalIds) : \E u \in Range(UrlMatches(TextZU, 1)) : UrlCase(d, u))
       => (UrlReturned /\ retrieval.result # NothingFound)
  /\ (Searched /\ isUrlQuery(retrieval.query) /\ retrieval.result = NothingFound)
       => /\ RelevantSections(retrieval.collection, AskedDocs,
                              SearchKeywords(retrieval.query), TRUE) = <<>>
          /\ ~SomeUrl

\* C13 holds for the calls that are not answered from the cache
C13_UrlFallbackComputed ==
  ~(retrieval.pc = "returned" /\ retrieval.fromCache) => C13_UrlFallback

\* the URL scan answered a call
C13_UrlScanAnswered ==
  /\ \E d \in Range(RetrievalIds) : \E u \in Range(UrlMatches(TextZU, 1)) : UrlCase(d, u)
  /\ ~retrieval.fromCache
  /\ UrlReturned

\* C14: getRelevantContext("", []) and ultraFastContextRetrieval(query, []) return
\* the empty string without throwing, without reading any Document, without
\* calling any external service and without writing to the cache, for every query
C14_EmptyInput ==
  /\ (sources.pc = "returned" /\ sources.query = <<>> /\ sources.list = <<>>)
       => /\ sources.result = <<>>
          /\ sources.reads = 0 /\ sources.fetches = 0
          /\ retrieval.cache = sources.before
  /\ (retrieval.pc = "returned" /\ retrieval.documents = DocumentArray(<<>>))
       => /\ retrieval.result = <<>>
          /\ retrieval.reads = 0
          /\ retrieval.cache = retrieval.before
  /\ sources.pc \in {"idle", "loop", "returned"}
  /\ retrieval.pc \in {"idle", "returned"}

\* ultraFastContextRetrieval was called with a query that has keywords and an
\* empty array, on a cache that is not empty
C14_Witness ==
  /\ retrieval.pc = "returned"
  /\ retrieval.documents = DocumentArray(<<>>)
  /\ retrieval.query = <<"r", "e", "f", "u", "n", "d">>
  /\ retrieval.cache # {}

\* getRelevantContext("", []) returned
C14_WitnessSources ==
  sources.pc = "returned" /\ sources.query = <<>> /\ sources.list = <<>> /\ ~sources.isNull

\* the sources of the call that cannot be resolved
FailingKinds == {DocumentSource(UnknownId), OtherSource}

\* the contributions that are not empty, in order
NonEmpty(contributed) == SelectSeq(contributed, LAMBDA c : c # <<>>)

\* C15: in getRelevantContext a source whose resolution fails (missing document,
\* website fetch error, unknown kind) contributes nothing and does not make the
\* call throw; every other source is still processed, and the context returned
\* is the non-empty per-source results joined in the order of the list
C15_FailureIsolatedPerSource ==
  /\ sources.pc \in {"idle", "loop", "returned"}
  /\ sources.pc \in {"loop", "returned"} =>
       \A k \in 1 .. Len(sources.contributed) :
         LET source == sources.list[k]
         IN  /\ source \in FailingKinds => sources.failed[k]
             /\ sources.failed[k] => sources.contributed[k] = <<>>
             /\ source = TextSource => sources.contributed[k] = InlineContext(source)
             /\ (source = WebsiteSource /\ ~sources.failed[k] /\ sources.query # <<>>)
                  => includes(sources.contributed[k], <<"F", "r", "o", "m", " ", "w", "e", "b",
                      "s", "i", "t", "e", " ", "w", ".", "i", "o", ":", "\n", "R", "e", "f", "u",
                          "n", "d", " ", "w", "i", "t", "h", "i", "n">>)
  /\ sources.pc = "returned" =>
       /\ Len(sources.contributed) = Len(sources.list)
       /\ sources.result = join(NonEmpty(sources.contributed), ParagraphBreak)

\* a call returned whose first source failed and whose second source contributed
C15_Witness ==
  /\ sources.pc = "returned"
  /\ Len(sources.list) = 2
  /\ sources.list[1] = WebsiteSource /\ sources.failed[1]
  /\ sources.list[2] = TextSource
  /\ sources.result = InlineContext(TextSource)

\* ---------------------------------------------------------------------------
\* A conversation turn: conversationController.sendMessage and
\* sendAgentMessage, voiceController.processTranscription, and the message
\* lists OpenAIService hands to the completion call
\* ---------------------------------------------------------------------------

MaxTurns == 6

\* messages.slice(-4) of generateResponse
RecentMessages == 4

\* const maxMessages = 10 of sendAgentMessage
maxMessages == 10

Message(role, content) == [role |-> role, content |-> content]

\* mutant: the whole history is sent
slice_Everything(messages, n) == messages

\* messages.slice(-n)
slice(messages, n) ==
  SubSeq(messages, IF Len(messages) > n THEN Len(messages) - n + 1 ELSE 1, Len(messages))

\* the positions of the system messages of a list
SystemMessages(messages) == {i \in DOMAIN messages : messages[i].role = "system"}

\* createConversation stores messages: []; startConversation and
\* processTranscription store one system message
ConversationKinds == {"chat", "agent", "voice"}

NewConversation(kind) ==
  IF kind = "chat" THEN <<>> ELSE <<Message("system", "stored prompt")>>

\* generateResponse: conversationMessages
generateResponseList(messages, contextualInfo) ==
  <<Message("system", IF contextualInfo THEN "knowledge prompt and documents"
                      ELSE "knowledge prompt")>>
    \o slice(messages, RecentMessages)

\* generateAgentResponse: conversationMessages
generateAgentResponseList(messages, contextualInfo) ==
  LET systemPrompt == Message("system", IF contextualInfo THEN "agent prompt and documents"
                                        ELSE "agent prompt")
  IN IF Len(messages) > 0 /\ messages[1].role = "system"
     THEN [messages EXCEPT ![1] = systemPrompt]
     ELSE <<systemPrompt>> \o messages

\* one stored conversation of either kind, and no request
NoTurn(kind) ==
  [pc |-> "idle", op |-> "none", kind |-> kind, stored |-> NewConversation(kind),
   before |-> NewConversation(kind), messages |-> <<>>, sent |-> <<>>,
   failed |-> FALSE, reply |-> "none", n |-> 0]

TurnInit ==
  /\ db = [d \in DocIds |-> NoDocument]
  /\ job = [w \in Workers |-> Idle]
  /\ calls = 0
  /\ runs = [d \in DocIds |-> 0]
  /\ outcomes = [d \in DocIds |-> {}]
  /\ thisText = <<>> /\ chunkSize = 0 /\ overlap = 0 /\ chunks = <<>>
  /\ startPosition = 0 /\ thisChunks = <<>> /\ chunkPc = "skipped"
  /\ stored = <<>> /\ found = FALSE /\ updatedChunks = <<>> /\ chunkIndex = 0
  /\ embedPc = "idle" /\ history = <<>>
  /\ cosine = NoCall /\ retrieval = NoCall /\ sources = NoCall
  /\ turn \in {NoTurn(kind) : kind \in ConversationKinds}
  /\ cost = NoCall /\ search = NoCall

TurnIdle == turn.pc \in {"idle", "returned"} /\ turn.n < MaxTurns

\* Conversation.findById, conversation.messages.push(userMessage), and the
\* completion request with the list the operation built
Request(op, messages, list) ==
  turn' = [turn EXCEPT !.pc = "completion", !.op = op, !.before = turn.stored,
                       !.messages = messages, !.sent = list,
                       !.failed = FALSE, !.reply = "none", !.n = @ + 1]

UserMessage == Message("user", "question")

\* sendMessage: the user's message is pushed on the loaded conversation; the
\* first statement of the try block reads DEFAULT_SYSTEM_PROMPT, which no
\* module declares, so it throws a ReferenceError before any list is built;
\* the catch answers 500 'Error generating AI response' and nothing is saved
SendMessage ==
  /\ TurnIdle
  /\ turn' = [turn EXCEPT !.pc = "returned", !.op = "sendMessage", !.before = turn.stored,
                          !.messages = Append(turn.stored, UserMessage), !.sent = <<>>,
                          !.failed = FALSE,
                          !.reply = "Error generating AI response", !.n = @ + 1]
  /\ UNCHANGED <<ingestVars, chunkVars, embedVars, cosine, retrieval, sources, cost, search>>

\* sendAgentMessage up to the completion request of generateAgentResponse;
\* it answers 400 unless the conversation has an agentConfig
SendAgentMessage(contextualInfo) ==
  /\ TurnIdle
  /\ turn.kind = "agent"
  /\ \E messages \in {Append(turn.stored, UserMessage)} :
       Request("sendAgentMessage", messages,
               generateAgentResponseList(slice(messages, maxMessages), contextualInfo))
  /\ UNCHANGED <<ingestVars, chunkVars, embedVars, cosine, retrieval, sources, cost, search>>

\* processTranscription up to the completion request of
\* generateResponse(conversation.messages): no documentIds, so no context
ProcessTranscription ==
  /\ TurnIdle
  /\ turn.kind = "voice"
  /\ \E messages \in {Append(turn.stored, UserMessage)} :
       Request("processTranscription", messages, generateResponseList(messages, FALSE))
  /\ UNCHANGED <<ingestVars, chunkVars, embedVars, cosine, retrieval, sources, cost, search>>

\* conversation.messages.push(assistantMessage); await conversation.save();
\* the response carries the assistant's content
Answered(content, reply, failed) ==
  turn' = [turn EXCEPT !.pc = "returned",
                       !.messages = Append(@, Message("assistant", content)),
                       !.stored = Append(turn.messages, Message("assistant", content)),
                       !.failed = failed, !.reply = reply]

\* the handler ends without conversation.save()
Aborted(reply) ==
  turn' = [turn EXCEPT !.pc = "returned", !.failed = TRUE, !.reply = reply]

\* generateAgentResponse: the catch rethrows, asyncHandler passes the error to
\* errorHandler, which answers with error.message
GenerateAgentResponse(ok) ==
  /\ turn.pc = "completion" /\ turn.op = "sendAgentMessage"
  /\ IF ok THEN Answered("answer", "answer", FALSE)
     ELSE Aborted("error.message")
  /\ UNCHANGED <<ingestVars, chunkVars, embedVars, cosine, retrieval, sources, cost, search>>

\* generateResponse: the catch returns the fixed text as a completion, which
\* processTranscription pushes and saves like an answer
GenerateResponse(ok) ==
  /\ turn.pc = "completion" /\ turn.op = "processTranscription"
  /\ IF ok THEN Answered("answer", "answer", FALSE)
     ELSE Answered("I couldn't access my knowledge base", "I couldn't access my knowledge base",
                   TRUE)
  /\ UNCHANGED <<ingestVars, chunkVars, embedVars, cosine, retrieval, sources, cost, search>>

TurnNext ==
  \/ SendMessage
  \/ \E contextualInfo \in BOOLEAN : SendAgentMessage(contextualInfo)
  \/ ProcessTranscription
  \/ \E ok \in BOOLEAN : GenerateAgentResponse(ok)
  \/ \E ok \in BOOLEAN : GenerateResponse(ok)

SpecTurn == TurnInit /\ [][TurnNext]_vars

\* C16: every message list sent to the completion call contains exactly one
\* system message, whatever the history and whether or not context was
\* retrieved
C16_ExactlyOneSystemMessage ==
  turn.sent # <<>> => Cardinality(SystemMessages(turn.sent)) = 1

\* what the code guarantees: generateAgentResponse sends exactly one system
\* message, also when the system message of the history fell out of the
\* last maxMessages
C16_AgentListHasOne ==
  (turn.sent # <<>> /\ turn.op = "sendAgentMessage")
    => Cardinality(SystemMessages(turn.sent)) = 1

\* a list was sent for a conversation longer than maxMessages
C16_Sent ==
  /\ turn.pc = "completion"
  /\ turn.op = "sendAgentMessage"
  /\ Len(turn.messages) > maxMessages

\* the replies that show nothing of the error
GenericReplies == {"Error generating AI response", "I couldn't access my knowledge base"}

\* C18: a turn whose completion call failed leaves the stored conversation as
\* it was and answers with a generic failure or the fixed fallback text
C18_FailedTurnAborted ==
  (turn.pc = "returned" /\ turn.failed)
    => (turn.stored = turn.before /\ turn.reply \in GenericReplies)

\* the part that holds: the reply after a failed completion call of
\* processTranscription is the fixed text
C18_FallbackText ==
  (turn.pc = "returned" /\ turn.failed /\ turn.op = "processTranscription")
    => turn.reply \in GenericReplies

\* a completion call of processTranscription failed on a conversation with
\* earlier turns
C18_Failed ==
  /\ turn.pc = "returned" /\ turn.failed /\ turn.op = "processTranscription"
  /\ Len(turn.before) > 1

\* ---------------------------------------------------------------------------
\* OpenAIService.calculateCost. Money is counted in units of 1e-8 dollar, in
\* which the rates per token and the markup are whole numbers; the fields
\* cost and customerPrice of the result are counted in units of 1e-6 dollar,
\* the six decimal places of toFixed(6)
\* ---------------------------------------------------------------------------

MaxTokens == 7

\* usage.prompt_tokens and usage.completion_tokens of a completion
TokenCounts == (0 .. MaxTokens) \cup {1000}

\* pricingConfig: dollars per 1K tokens, here 1e-8 dollar per token
pricingConfig ==
  [m \in {"gpt-3.5-turbo", "gpt-4", "gpt-4-turbo"} |->
     CASE m = "gpt-3.5-turbo" -> [prompt |-> 150, completion |-> 200]
       [] m = "gpt-4" -> [prompt |-> 3000, completion |-> 6000]
       [] m = "gpt-4-turbo" -> [prompt |-> 1000, completion |-> 3000]]

\* the models of AgentConfig and generateResponse, and names the table lacks
ModelNames == DOMAIN pricingConfig \cup {"gpt-4o", "fallback"}

\* MARKUP_PERCENTAGE = 0.3, in tenths
MARKUP_PERCENTAGE == 3

\* pricingConfig[model] || pricingConfig['gpt-3.5-turbo']
Pricing(model) ==
  IF model \in DOMAIN pricingConfig THEN pricingConfig[model]
  ELSE pricingConfig["gpt-3.5-turbo"]

\* (promptTokens / 1000) * pricing.prompt + (completionTokens / 1000) * pricing.completion
TotalCost(model, promptTokens, completionTokens) ==
  promptTokens * Pricing(model).prompt + completionTokens * Pricing(model).completion

\* mutant: the markup is taken of the cost already cut to six places
CustomerPrice_OfStoredCost(totalCost) ==
  100 * (totalCost \div 100) + ((100 * (totalCost \div 100)) * MARKUP_PERCENTAGE) \div 10

\* totalCost + totalCost * MARKUP_PERCENTAGE
CustomerPrice(totalCost) == totalCost + (totalCost * MARKUP_PERCENTAGE) \div 10

\* parseFloat(x.toFixed(6)) for x >= 0: the multiple of 1e-6 nearest to the
\* double x. A decimal value halfway between two multiples is no double: the
\* double that the multiplications and additions produced lies just below or
\* just above it, so either neighbour can be the result
toFixed(x) ==
  IF x % 100 < 50 THEN {x \div 100}
  ELSE IF x % 100 > 50 THEN {x \div 100 + 1}
  ELSE {x \div 100, x \div 100 + 1}

\* the objects calculateCost(model, promptTokens, completionTokens) can return
calculateCost(model, promptTokens, completionTokens) ==
  LET totalCost == TotalCost(model, promptTokens, completionTokens)
  IN {[pc |-> "returned", model |-> model, promptTokens |-> promptTokens,
       completionTokens |-> completionTokens,
       totalTokens |-> promptTokens + completionTokens,
       cost |-> c, customerPrice |-> p] :
        c \in toFixed(totalCost), p \in toFixed(CustomerPrice(totalCost))}

CostInit ==
  /\ db = [d \in DocIds |-> NoDocument]
  /\ job = [w \in Workers |-> Idle]
  /\ calls = 0
  /\ runs = [d \in DocIds |-> 0]
  /\ outcomes = [d \in DocIds |-> {}]
  /\ thisText = <<>> /\ chunkSize = 0 /\ overlap = 0 /\ chunks = <<>>
  /\ startPosition = 0 /\ thisChunks = <<>> /\ chunkPc = "skipped"
  /\ stored = <<>> /\ found = FALSE /\ updatedChunks = <<>> /\ chunkIndex = 0
  /\ embedPc = "idle" /\ history = <<>>
  /\ cosine = NoCall /\ retrieval = NoCall /\ sources = NoCall
  /\ turn = NoCall
  /\ cost = [pc |-> "idle"]
  /\ search = NoCall

\* usageData = await this.calculateCost(model, usage.prompt_tokens, usage.completion_tokens)
CalculateCost(model, promptTokens, completionTokens) ==
  /\ cost' \in calculateCost(model, promptTokens, completionTokens)
  /\ UNCHANGED <<ingestVars, chunkVars, embedVars, cosine, retrieval, sources, turn, search>>

CostNext ==
  \E model \in ModelNames, promptTokens \in TokenCounts, completionTokens \in TokenCounts :
    CalculateCost(model, promptTokens, completionTokens)

SpecCost == CostInit /\ [][CostNext]_vars

\* the rates the claim names for a model, in 1e-8 dollar per token
Rates(model) ==
  IF model = "gpt-4" THEN <<3000, 6000>>
  ELSE IF model = "gpt-4-turbo" THEN <<1000, 3000>>
  ELSE <<150, 200>>

\* p/1000 * promptRate + c/1000 * completionRate, in 1e-8 dollar
Expected(u) == u.promptTokens * Rates(u.model)[1] + u.completionTokens * Rates(u.model)[2]

\* r, in 1e-6 dollar, is x, in 1e-8 dollar, rounded to six decimal places
RoundedTo6(r, x) == 100 * r - x <= 50 /\ x - 100 * r <= 50

\* C17: calculateCost returns cost = p/1000 * promptRate + c/1000 * completionRate
\* and customerPrice = 1.3 times that, each rounded to six decimal places,
\* and totalTokens = p + c; a model the table lacks is priced as
\* gpt-3.5-turbo; customerPrice >= cost
C17_CostAccounting ==
  cost.pc = "returned" =>
    /\ RoundedTo6(cost.cost, Expected(cost))
    /\ RoundedTo6(cost.customerPrice, (13 * Expected(cost)) \div 10)
    /\ 10 * ((13 * Expected(cost)) \div 10) = 13 * Expected(cost)
    /\ cost.totalTokens = cost.promptTokens + cost.completionTokens
    /\ cost.customerPrice >= cost.cost

\* calculateCost('gpt-4o', 2, 1): a model the table lacks, and a customer
\* price halfway between two multiples of 1e-6
C17_Witness ==
  /\ cost.pc = "returned"
  /\ cost.model \notin DOMAIN pricingConfig
  /\ cost.promptTokens = 2 /\ cost.completionTokens = 1
  /\ cost.cost = 5 /\ cost.customerPrice = 6

\* calculateCost(model, 1000, 1000) of a model of the table
C17_WitnessThousand ==
  /\ cost.pc = "returned"
  /\ cost.model = "gpt-4"
  /\ cost.promptTokens = 1000 /\ cost.completionTokens = 1000
  /\ cost.cost = 90000 /\ cost.customerPrice = 117000

\* ---------------------------------------------------------------------------
\* EmbeddingService.findRelevantChunks and agentController.getRelevantContext
\* ---------------------------------------------------------------------------

MaxSearches == 2

\* limit = 5
DefaultLimit == 5

SearchIds == <<"1", "2">>

\* a Document as Mongoose stores it: the chunks are cast to the sub-schema,
\* which has no embedding path
SearchDocument(fileName, text) ==
  [exists |-> TRUE, fileName |-> fileName, chunks |-> CastChunks(UnitChunks(text))]

SearchCollections ==
  {[d \in Range(SearchIds) |->
      IF d = "1" THEN SearchDocument("faq", t) ELSE SearchDocument("terms", <<"b">>)] :
     t \in {<<>>, <<"a">>, <<"a", "b">>}}

SearchQueries == {"", "refund"}

\* what generateEmbedding(query) returns when the API call succeeds
QueryEmbeddings == {Vector(<<Number(3), Number(-1)>>), Vector(<<Number(3)>>)}

DocumentIdLists == {<<>>, <<"1">>, <<"2", "1">>, <<"3">>}

Limits == {0, 1, DefaultLimit}

\* a < b for the numbers of the similarity functions; false when either is NaN
Sign(x) == IF x.kind = "nan" \/ x.m = 0 THEN 0 ELSE IF x.m < 0 THEN -1 ELSE 1

SmallerMagnitude(x, y) ==
  \/ x.kind = "finite" /\ y.kind = "infinity"
  \/ /\ x.kind = "finite" /\ y.kind = "finite"
     /\ (x.e < y.e \/ (x.e = y.e /\ Abs(x.m) < Abs(y.m)))

LessThan(x, y) ==
  /\ x.kind # "nan" /\ y.kind # "nan"
  /\ \/ Sign(x) < Sign(y)
     \/ Sign(x) = 1 /\ Sign(y) = 1 /\ SmallerMagnitude(x, y)
     \/ Sign(x) = -1 /\ Sign(y) = -1 /\ SmallerMagnitude(y, x)

\* Document.find({ _id: { $in: documentIds }, 'chunks.embedding': { $exists: true } }):
\* the ids of the Documents found. The schema has no path chunks.embedding;
\* with strictQuery Mongoose drops the condition from the filter, without it
\* the condition is sent as it is
FindEmbedded(collection, documentIds, strictQuery) ==
  SelectSeq(SearchIds,
            LAMBDA d : /\ d \in Range(documentIds)
                       /\ collection[d].exists
                       /\ \/ strictQuery
                          \/ \E k \in DOMAIN collection[d].chunks :
                               "embedding" \in DOMAIN collection[d].chunks[k])

\* mutant: chunks without an embedding are not skipped
Scored_Always(chunk) == TRUE

\* !(!chunk.embedding || chunk.embedding.length === 0)
Scored(chunk) == HasEmbedding(chunk)

\* chunk.embedding as cosineSimilarity receives it
EmbeddingOf(chunk) ==
  IF "embedding" \in DOMAIN chunk THEN Vector(chunk.embedding) ELSE NullVector

\* the entries the inner loop pushes for one Document
ChunksOfDocument(collection, d, queryEmbedding) ==
  LET cs == collection[d].chunks
      entry(k) == [documentId |-> d, documentTitle |-> collection[d].fileName,
                   chunkId |-> cs[k].index, text |-> cs[k].text,
                   similarity |-> cosineSimilarity(queryEmbedding, EmbeddingOf(cs[k]))]
  IN SelectSeq([k \in 1 .. Len(cs) |-> entry(k)], LAMBDA r : Scored(cs[r.chunkId + 1]))

\* allChunks after the loops
RECURSIVE AllChunks(_, _, _)
AllChunks(collection, documents, queryEmbedding) ==
  IF documents = <<>> THEN <<>>
  ELSE ChunksOfDocument(collection, Head(documents), queryEmbedding)
         \o AllChunks(collection, Tail(documents), queryEmbedding)

\* allChunks.sort((a, b) => b.similarity - a.similarity): descending, stable
RECURSIVE SortBySimilarity(_)
SortBySimilarity(rs) ==
  IF rs = <<>> THEN <<>>
  ELSE LET best == CHOOSE i \in 1 .. Len(rs) :
                     /\ \A j \in 1 .. Len(rs) : ~LessThan(rs[i].similarity, rs[j].similarity)
                     /\ \A j \in 1 .. (i - 1) :
                          \E k \in 1 .. Len(rs) : LessThan(rs[j].similarity, rs[k].similarity)
       IN  <<rs[best]>>
             \o SortBySimilarity([k \in 1 .. (Len(rs) - 1) |->
                                    IF k < best THEN rs[k] ELSE rs[k + 1]])

\* allChunks.slice(0, limit)
Top(rs, limit) == SubSeq(rs, 1, Min(limit, Len(rs)))

\* findRelevantChunks(query, documentIds, limit) once generateEmbedding(query)
\* has returned queryEmbedding
findRelevantChunks(queryEmbedding, documentIds, limit, collection, strictQuery) ==
  LET documents == FindEmbedded(collection, documentIds, strictQuery)
  IN IF documents = <<>> THEN <<>>
     ELSE Top(SortBySimilarity(AllChunks(collection, documents, queryEmbedding)), limit)

NoSearch(collection) ==
  [pc |-> "idle", op |-> "none", collection |-> collection, query |-> "",
   documentIds |-> <<>>, limit |-> 0, embedding |-> NullVector, result |-> <<>>, isNull |-> FALSE,
   n |-> 0]

SearchInit ==
  /\ db = [d \in DocIds |-> NoDocument]
  /\ job = [w \in Workers |-> Idle]
  /\ calls = 0
  /\ runs = [d \in DocIds |-> 0]
  /\ outcomes = [d \in DocIds |-> {}]
  /\ thisText = <<>> /\ chunkSize = 0 /\ overlap = 0 /\ chunks = <<>>
  /\ startPosition = 0 /\ thisChunks = <<>> /\ chunkPc = "skipped"
  /\ stored = <<>> /\ found = FALSE /\ updatedChunks = <<>> /\ chunkIndex = 0
  /\ embedPc = "idle" /\ history = <<>>
  /\ cosine = NoCall /\ retrieval = NoCall /\ sources = NoCall
  /\ turn = NoCall /\ cost = NoCall
  /\ search \in {NoSearch(c) : c \in SearchCollections}

\* findRelevantChunks(query, documentIds, limit): generateEmbedding(query)
\* rethrows the error of the API call, and nothing here catches it
FindRelevantChunks(query, documentIds, limit, strictQuery, ok, embedding) ==
  /\ search.n < MaxSearches
  /\ search' =
       IF ~ok
       THEN [search EXCEPT !.pc = "thrown", !.op = "findRelevantChunks", !.query = query,
                           !.documentIds = documentIds, !.limit = limit,
                           !.embedding = NullVector, !.result = <<>>,
                           !.isNull = FALSE, !.n = @ + 1]
       ELSE [search EXCEPT !.pc = "returned", !.op = "findRelevantChunks", !.query = query,
                           !.documentIds = documentIds, !.limit = limit,
                           !.embedding = embedding,
                           !.result = findRelevantChunks(embedding, documentIds, limit,
                                                         search.collection, strictQuery),
                           !.isNull = FALSE, !.n = @ + 1]
  /\ UNCHANGED <<ingestVars, chunkVars, embedVars, cosine, retrieval, sources, turn, cost>>

\* getRelevantContext(agentId, query): if (!agent || !agent.knowledgeBase)
\* return null. The AgentConfig schema has no knowledgeBase path, so the
\* condition holds for every agent and createEmbedding is never reached
AgentGetRelevantContext(query) ==
  /\ search.n < MaxSearches
  /\ search' = [search EXCEPT !.pc = "returned", !.op = "getRelevantContext",
                              !.query = query, !.documentIds = <<>>, !.limit = 0,
                              !.embedding = NullVector, !.result = <<>>,
                              !.isNull = TRUE, !.n = @ + 1]
  /\ UNCHANGED <<ingestVars, chunkVars, embedVars, cosine, retrieval, sources, turn, cost>>

SearchNext ==
  \/ \E query \in SearchQueries, documentIds \in DocumentIdLists, limit \in Limits,
        strictQuery \in BOOLEAN, ok \in BOOLEAN, embedding \in QueryEmbeddings :
       FindRelevantChunks(query, documentIds, limit, strictQuery, ok, embedding)
  \/ \E query \in SearchQueries : AgentGetRelevantContext(query)

SpecSearch == SearchInit /\ [][SearchNext]_vars

\* C19: embedding retrieval returns an empty or sentinel result and never
\* throws, also for an empty query, an empty candidate set, a failed embedding
\* call for the query and chunks without an embedding
C19_RetrievalNeverThrows ==
  /\ search.pc # "thrown"
  /\ (search.pc = "returned" /\ (search.query = "" \/ search.documentIds = <<>>))
       => (search.isNull \/ search.result = <<>>)

\* what the code guarantees: a call that got its query embedding returns, and
\* returns nothing for an empty candidate set
C19_ReturnsOnceEmbedded ==
  (search.op = "findRelevantChunks" /\ search.embedding # NullVector)
    => (search.pc = "returned" /\ (search.documentIds = <<>> => search.result = <<>>))

\* the chunks of the requested Documents that carry an embedding
EmbeddedChunks ==
  {<<d, k>> \in Range(SearchIds) \X (0 .. MaxChunks) :
     /\ d \in Range(search.documentIds)
     /\ k < Len(search.collection[d].chunks)
     /\ HasEmbedding(search.collection[d].chunks[k + 1])}

ReturnedChunks == {<<search.result[i].documentId, search.result[i].chunkId>> :
                     i \in 1 .. Len(search.result)}

MaxClock == 3
MaxCacheCalls == 2

\* stdTTL: 60 * 60 seconds, counted in half hours
stdTTL == 2

CacheQueries ==
  {<<"r", "e", "f", "u", "n", "d">>, LongPrefix \o <<"r", "e", "f", "u", "n", "d">>,
   LongPrefix \o <<"l", "i", "n", "k">>}

CacheDocumentArguments ==
  {DocumentArray(<<"1">>), OneDocument("1"), DocumentArray(<<"2", "1">>),
   DocumentArray(<<"1", "2">>)}

CacheCollections ==
  {[id \in Range(RetrievalIds) |->
      IF id = "1" THEN StoredDocument(<<"f", "a", "q">>, t) ELSE StoredDocument(<<>>, TextZU)] :
     t \in {TextXYZ, TextXZU}}

\* mutant: an entry never expires
Live_Forever(cache, expires, now) == cache

\* the entries get still returns at time now
Live(cache, expires, now) ==
  {c \in cache : \E x \in expires : x.key = c.key /\ now <= x.t}

\* the expiry times after a call at time now: the entry the call set lives up
\* to now + stdTTL; each entry remembers the call that set it
Expiry(expires, live, after, now, query, ids) ==
  {x \in expires : \A c \in after \ live : c.key # x.key}
    \cup {[key |-> c.key, t |-> now + stdTTL, at |-> now, query |-> query, ids |-> ids] :
            c \in after \ live}

CacheInit ==
  /\ db = [d \in DocIds |-> NoDocument]
  /\ job = [w \in Workers |-> Idle]
  /\ calls = 0
  /\ runs = [d \in DocIds |-> 0]
  /\ outcomes = [d \in DocIds |-> {}]
  /\ thisText = <<>> /\ chunkSize = 0 /\ overlap = 0 /\ chunks = <<>>
  /\ startPosition = 0 /\ thisChunks = <<>> /\ chunkPc = "skipped"
  /\ stored = <<>> /\ found = FALSE /\ updatedChunks = <<>> /\ chunkIndex = 0
  /\ embedPc = "idle" /\ history = <<>>
  /\ cosine = NoCall
  /\ retrieval \in {[pc |-> "idle", collection |-> c, cache |-> {}, n |-> 0,
                     query |-> <<>>, documents |-> NullDocuments, result |-> <<>>,
                     reads |-> 0, fromCache |-> FALSE, before |-> {}, expires |-> {},
                     at |-> 0, now |-> 0] : c \in CacheCollections}
  /\ sources = NoCall
  /\ turn = NoCall /\ cost = NoCall /\ search = NoCall

\* a call of ultraFastContextRetrieval(query, documents) at time retrieval.now
CachedRetrieve(query, documents) ==
  /\ retrieval.n < MaxCacheCalls
  /\ \E live \in {Live(retrieval.cache, retrieval.expires, retrieval.now)} :
     \E r \in {ultraFastContextRetrieval(query, documents, retrieval.collection, live, TRUE)} :
       retrieval' = [retrieval EXCEPT
         !.pc = "returned", !.n = @ + 1, !.query = query, !.documents = documents,
         !.result = r.result, !.cache = r.cache, !.reads = r.reads,
         !.fromCache = r.fromCache,
         !.before = retrieval.expires, !.at = retrieval.now,
         !.expires = Expiry(retrieval.expires, live, r.cache, retrieval.now, query,
                            documents.ids)]
  /\ UNCHANGED <<ingestVars, chunkVars, embedVars, cosine, sources, turn, cost, search>>

\* half an hour passes
Tick ==
  /\ retrieval.now < MaxClock
  /\ retrieval' = [retrieval EXCEPT !.now = @ + 1]
  /\ UNCHANGED <<ingestVars, chunkVars, embedVars, cosine, sources, turn, cost, search>>

CacheNext ==
  \/ \E query \in CacheQueries, documents \in CacheDocumentArguments :
       CachedRetrieve(query, documents)
  \/ Tick

SpecCache == CacheInit /\ [][CacheNext]_vars

\* the first 30 characters of a query
QueryPrefix(query) == SubSeq(query, 1, Min(30, Len(query)))

\* the entries of the calls with the query prefix and document id set of the
\* last call
SameRequest(entries) ==
  {x \in entries : /\ QueryPrefix(x.query) = QueryPrefix(retrieval.query)
                   /\ Range(x.ids) = Range(retrieval.documents.ids)}

\* the entries set no more than stdTTL before the last call
WithinTTL(entries) == {x \in entries : retrieval.at <= x.at + stdTTL}

\* C21: a call with the query prefix and the document id set, in any order,
\* of a call whose scored result was cached within the last hour returns that
\* string without reading a Document; once the hour is over the result is
\* computed again
C21_CacheHitWithinTTL ==
  retrieval.pc = "returned" =>
    /\ \A x \in WithinTTL(SameRequest(retrieval.before)) :
         /\ retrieval.fromCache /\ retrieval.reads = 0
         /\ \E c \in retrieval.cache : c.key = x.key /\ c.value = retrieval.result
         /\ x \in retrieval.expires
    /\ WithinTTL(SameRequest(retrieval.before)) = {} =>
         (~retrieval.fromCache /\ retrieval.reads = 1)

\* a call is answered from the entry that a call with the ids in another
\* order set an hour before
C21_Witness ==
  /\ retrieval.pc = "returned" /\ retrieval.fromCache
  /\ \E x \in SameRequest(retrieval.before) :
       /\ x.ids # retrieval.documents.ids
       /\ x.query # retrieval.query
       /\ retrieval.at = x.at + stdTTL

\* a call recomputes the result of an entry that has expired
C21_WitnessExpired ==
  /\ retrieval.pc = "returned" /\ ~retrieval.fromCache /\ retrieval.reads = 1
  /\ SameRequest(retrieval.before) # {}
  /\ \E y \in retrieval.expires : y.at = retrieval.at

\* ---------------------------------------------------------------------------
\* The window of recent messages of a conversation turn (SpecTurn)
\* ---------------------------------------------------------------------------

\* s is the end of t
IsSuffix(s, t) == Len(s) <= Len(t) /\ s = SubSeq(t, Len(t) - Len(s) + 1, Len(t))

\* N of the operation that sent the list
WindowOf(op) == IF op = "sendAgentMessage" THEN 10 ELSE 4

\* C22: besides the system message at its head, the list sent holds at most N
\* of the most recent messages of the conversation, in their order and ending
\* with the new user message (N = 4 in generateResponse, 10 in
\* sendAgentMessage), however long the history is
C22_RecentWindow ==
  turn.pc = "completion" =>
    /\ Head(turn.sent).role = "system"
    /\ Len(Tail(turn.sent)) <= WindowOf(turn.op)
    /\ IsSuffix(Tail(turn.sent), turn.messages)
    /\ turn.sent[Len(turn.sent)] = turn.messages[Len(turn.messages)]
    /\ turn.sent[Len(turn.sent)].role = "user"

\* generateResponse was given more than four messages
C22_Witness ==
  /\ turn.pc = "completion" /\ turn.op = "processTranscription"
  /\ Len(turn.messages) > 4
  /\ Len(turn.sent) = 5

\* sendAgentMessage on a conversation of more than ten messages
C22_WitnessAgent ==
  /\ turn.pc = "completion" /\ turn.op = "sendAgentMessage"
  /\ Len(turn.messages) > 10
  /\ Len(turn.sent) = 11

\* ---------------------------------------------------------------------------
\* KnowledgeSourceService.getSourceContent
\* ---------------------------------------------------------------------------

\* enum: ['pending', 'processing', 'completed', 'failed']
ProcessingStatuses == {"pending", "processing", "completed", "failed"}

\* extractedText of a stored Document: null, '' (the default) or a text
NullText == [isNull |-> TRUE, chars |-> <<>>]
Text(chars) == [isNull |-> FALSE, chars |-> chars]
SourceTexts == {NullText, Text(<<>>), Text(<<"R", "e", "f", "u", "n", "d", " ", "r", "u", "l",
    "e", "s">>)}

\* Document 1 in any state of processing; no other Document
SourceCollections ==
  {[exists |-> TRUE, processingStatus |-> s, extractedText |-> t] :
     s \in ProcessingStatuses, t \in SourceTexts}

QaSource == Source("qa", Null, <<>>, <<"Q", ":", " ", "r", "e", "f", "u", "n", "d", "?", " ",
    "A", ":", " ", "y", "e", "s">>)

SourceArguments ==
  {DocumentSource("1"), DocumentSource(UnknownId), WebsiteSource, TextSource, QaSource,
   OtherSource, Source("text", Null, <<>>, <<>>)}

\* what a call gives: the string returned, or the message of the error thrown
SourceContent(content) == [pc |-> "returned", content |-> content, error |-> <<>>]
SourceError(message) == [pc |-> "thrown", content |-> <<>>, error |-> message]

\* mutant: a Document that is not completed counts as missing
Readable_WhenCompleted(document) ==
  document.exists /\ document.processingStatus = "completed"

\* !(!document)
Readable(document) == document.exists

\* getDocumentContent(documentId); document: what Document.findById gives,
\* dbOk: whether the query succeeds
getDocumentContent(documentId, document, dbOk) ==
  IF ~dbOk THEN SourceError(<<"q", "u", "e", "r", "y", " ", "f", "a", "i", "l", "e", "d">>)
  ELSE IF ~Readable(document) THEN SourceError(<<"D", "o", "c", "u", "m", "e", "n", "t", " ",
      "n", "o", "t", " ", "f", "o", "u", "n", "d", ":", " ">> \o <<documentId>>)
  ELSE SourceContent(IF document.extractedText.isNull \/ document.extractedText.chars = <<>>
                     THEN <<>> ELSE document.extractedText.chars)

\* getWebsiteContent(url); fetch: what axios.get gives
getWebsiteContent(url, fetch) ==
  IF fetch.ok THEN SourceContent(WebsiteText(fetch.body))
  ELSE SourceError(<<"F", "a", "i", "l", "e", "d", " ", "t", "o", " ", "f", "e", "t", "c", "h",
      " ", "w", "e", "b", "s", "i", "t", "e", " ", "c", "o", "n", "t", "e", "n", "t", ":", " ">>)

\* getSourceContent(source)
getSourceContent(source, document, dbOk, fetch) ==
  CASE source.sourceType = "document" -> getDocumentContent(source.sourceId, document, dbOk)
    [] source.sourceType = "website" -> getWebsiteContent(source.url, fetch)
    [] source.sourceType \in {"text", "qa"} -> SourceContent(source.content)
    [] OTHER -> SourceError(<<"U", "n", "s", "u", "p", "p", "o", "r", "t", "e", "d", " ", "s",
        "o", "u", "r", "c", "e", " ", "t", "y", "p", "e", ":", " ">> \o <<source.sourceType>>)

NoSourceCall(document) ==
  [pc |-> "idle", document |-> document, source |-> TextSource, dbOk |-> TRUE,
   content |-> <<>>, error |-> <<>>]

SourceInit ==
  /\ db = [d \in DocIds |-> NoDocument]
  /\ job = [w \in Workers |-> Idle]
  /\ calls = 0
  /\ runs = [d \in DocIds |-> 0]
  /\ outcomes = [d \in DocIds |-> {}]
  /\ thisText = <<>> /\ chunkSize = 0 /\ overlap = 0 /\ chunks = <<>>
  /\ startPosition = 0 /\ thisChunks = <<>> /\ chunkPc = "skipped"
  /\ stored = <<>> /\ found = FALSE /\ updatedChunks = <<>> /\ chunkIndex = 0
  /\ embedPc = "idle" /\ history = <<>>
  /\ cosine = NoCall /\ retrieval = NoCall
  /\ sources \in {NoSourceCall(document) : document \in SourceCollections}
  /\ turn = NoCall /\ cost = NoCall /\ search = NoCall

\* a call of getSourceContent(source)
GetSourceContent(source, dbOk, fetch) ==
  /\ source.sourceType = "document" \/ dbOk
  /\ source.sourceType # "website" => fetch = NoFetch
  /\ \E r \in {getSourceContent(source,
                                IF source.sourceId = "1" THEN sources.document
                                ELSE [sources.document EXCEPT !.exists = FALSE],
                                dbOk, fetch)} :
       sources' = [sources EXCEPT !.pc = r.pc, !.source = source, !.dbOk = dbOk,
                                  !.content = r.content, !.error = r.error]
  /\ UNCHANGED <<ingestVars, chunkVars, embedVars, cosine, retrieval, turn, cost, search>>

SourceNext ==
  \E source \in SourceArguments, dbOk \in BOOLEAN, fetch \in FetchOutcomes :
    GetSourceContent(source, dbOk, fetch)

SpecSource == SourceInit /\ [][SourceNext]_vars

\* C23: for a `document` source whose Document exists, getSourceContent
\* returns the extractedText whatever the processingStatus, '' when there is
\* none, and throws only when the Document does not exist; a `text` or `qa`
\* source returns its content as it is; an unknown kind throws
C23_SourceContent ==
  LET s == sources.source
      called == sources.pc \in {"returned", "thrown"}
  IN /\ (called /\ s.sourceType = "document" /\ sources.dbOk) =>
          IF s.sourceId = "1"
          THEN /\ sources.pc = "returned"
               /\ sources.content = sources.document.extractedText.chars
          ELSE sources.pc = "thrown"
     /\ (called /\ s.sourceType \in {"text", "qa"}) =>
          (sources.pc = "returned" /\ sources.content = s.content)
     /\ (called /\ s.sourceType \notin {"document", "website", "text", "qa"}) =>
          sources.pc = "thrown"

\* a `document` source of a Document that is still being processed and has
\* no text yet
C23_Witness ==
  /\ sources.pc = "returned"
  /\ sources.source.sourceType = "document"
  /\ sources.document.processingStatus = "processing"
  /\ sources.document.extractedText.isNull
  /\ sources.content = <<>>

\* a source of an unknown kind
C23_WitnessUnknown ==
  /\ sources.pc = "thrown"
  /\ sources.source = OtherSource

\* ------------------------------------------- the chunks of a stored Document
\* One Document through processDocument (which rewrites extractedText),
\* chunkDocument (SpecChunk's steps, run on the text the Document has at the call)
\* and processDocumentEmbeddings (which reads the chunks, awaits the embedding
\* calls and saves what it read). chunkDocument has no await before its save, so
\* nothing runs between two of its steps.
MaxLifeTextLen == 2     \* longest text processDocument extracts
MaxLifeChunkSize == 2   \* largest chunkSize argument
MaxLifeOverlap == 1     \* largest overlap argument

\* the Document as created by upload: extractedText '' and no chunks
LifeInit ==
  /\ db = [d \in DocIds |-> NoDocument]
  /\ job = [w \in Workers |-> Idle]
  /\ calls = 0
  /\ runs = [d \in DocIds |-> 0]
  /\ outcomes = [d \in DocIds |-> {}]
  /\ stored = <<>> /\ found = TRUE /\ updatedChunks = <<>> /\ chunkIndex = 0
  /\ embedPc = "idle" /\ history = <<>>
  /\ cosine = NoCall /\ retrieval = NoCall /\ sources = NoCall
  /\ turn = NoCall /\ cost = NoCall /\ search = NoCall
  /\ thisText = <<>>
  /\ chunkSize = 1
  /\ overlap = 0
  /\ chunks = <<>>
  /\ startPosition = 0
  /\ thisChunks = <<>>
  /\ chunkPc = "idle"

\* document.extractedText = processedText; ... await document.save();
\* the chunks are not among the paths processDocument writes
ProcessDocument(processedText) ==
  /\ chunkPc # "loop"
  /\ thisText' = processedText
  /\ UNCHANGED <<chunkSize, overlap, chunks, startPosition, thisChunks, chunkPc>>
  /\ UNCHANGED <<ingestVars, embedVars, callVars>>

\* doc.chunkDocument(cs, ov) is entered: const chunks = []; let startPosition = 0;
ChunkDocument(cs, ov) ==
  /\ chunkPc # "loop"
  /\ chunkSize' = cs
  /\ overlap' = ov
  /\ chunks' = <<>>
  /\ startPosition' = 0
  /\ chunkPc' = "loop"
  /\ UNCHANGED <<thisText, thisChunks>>
  /\ UNCHANGED <<ingestVars, embedVars, callVars>>

\* processDocumentEmbeddings: const document = await Document.findById(documentId);
\* it throws when the Document has no chunks, and otherwise works on the chunks it read
LifeEmbedStart ==
  /\ chunkPc # "loop"
  /\ embedPc # "loop"
  /\ embedPc' = IF Len(thisChunks) = 0 THEN "thrown" ELSE "loop"
  /\ stored' = thisChunks
  /\ UNCHANGED <<found, updatedChunks, chunkIndex, history>>
  /\ UNCHANGED <<ingestVars, chunkVars, callVars>>

\* document.chunks = updatedChunks; await document.save(): each chunk read at the
\* start, with the embedding the schema then drops
LifeEmbedSave ==
  /\ chunkPc # "loop"
  /\ embedPc = "loop"
  /\ thisChunks' = stored
  /\ embedPc' = "returned"
  /\ UNCHANGED <<thisText, chunkSize, overlap, chunks, startPosition, chunkPc>>
  /\ UNCHANGED <<stored, found, updatedChunks, chunkIndex, history>>
  /\ UNCHANGED <<ingestVars, callVars>>

LifeNext ==
  \/ \E processedText \in Texts(MaxLifeTextLen) : ProcessDocument(processedText)
  \/ \E cs \in 1 .. MaxLifeChunkSize, ov \in 0 .. MaxLifeOverlap : ChunkDocument(cs, ov)
  \/ ChunkSkip
  \/ ChunkStep
  \/ ChunkSave
  \/ LifeEmbedStart
  \/ LifeEmbedSave

SpecLife == LifeInit /\ [][LifeNext]_vars

\* C24: chunkDocument on a Document whose extractedText is empty or null raises
\* no error and leaves the Document with an empty chunk list, also when the
\* Document carried chunks from an earlier text
C24_EmptyTextLeavesNoChunks ==
  chunkPc = "skipped" => thisChunks = <<>>

\* chunkDocument returned at `if (!text) return;` on a Document that has chunks
C24_SkippedWithChunks ==
  /\ chunkPc = "skipped"
  /\ thisText = <<>>
  /\ thisChunks # <<>>

\* what does hold: the early return raises nothing and changes nothing
C24_EmptyTextChangesNothing ==
  [][ChunkSkip => (thisChunks' = thisChunks /\ thisText' = thisText)]_vars

\* chunk c is text[startPosition, endPosition) of the text t
Describes(c, t) ==
  /\ c.startPosition <= c.endPosition
  /\ c.endPosition <= Len(t)
  /\ c.text = substring(t, c.startPosition, c.endPosition)

\* C27: after any sequence of processDocument, chunkDocument and
\* processDocumentEmbeddings calls, every stored chunk satisfies
\* chunk.text = extractedText[startPosition, endPosition) for the current
\* extractedText of the Document
C27_ChunksDescribeCurrentText ==
  chunkPc # "loop" => \A k \in 1 .. Len(thisChunks) : Describes(thisChunks[k], thisText)

\* processDocumentEmbeddings saved chunks of a text the Document no longer has
C27_StaleChunksSaved ==
  /\ embedPc = "returned"
  /\ \E k \in 1 .. Len(thisChunks) : ~Describes(thisChunks[k], thisText)

\* ----------------------------------------- cosine similarity: range of the score
\* 0 <= x <= 1
InUnitInterval(x) ==
  /\ x.kind = "finite"
  /\ x.m >= 0
  /\ x.m = 0 \/ (x.e <= 0 /\ x.m <= Pow2(-x.e))

\* the arguments are two arrays of the same length
EqualLength ==
  /\ ~cosine.vecA.isNull
  /\ ~cosine.vecB.isNull
  /\ Len(cosine.vecA.items) = Len(cosine.vecB.items)

\* C25: the cosine similarity functions return a score between 0 and 1
\* inclusive for every pair of equal-length numeric vectors, including vectors
\* with negative components
C25_ScoreInUnitInterval ==
  (cosine.pc = "returned" /\ EqualLength) => InUnitInterval(cosine.result)

\* a negative score was returned for two finite vectors
C25_NegativeScore ==
  /\ cosine.pc = "returned"
  /\ cosine.vecA = Vector(<<Number(3)>>)
  /\ cosine.vecB = Vector(<<Number(-1)>>)
  /\ cosine.result = Number(-1)

\* NaN was returned: the squared norm of one vector overflowed
C25_NotANumber ==
  /\ cosine.pc = "returned"
  /\ EqualLength
  /\ cosine.result = NaN

\* ------------------------------------------- processDocument: the stored error
\* C26: whenever a Document's processingStatus is `completed`, its
\* processingError is null: a Document that failed once and is then processed
\* successfully (queue retry) does not keep the error message of the earlier failure
C26_CompletedHasNoError ==
  \A d \in Rows : db[d].processingStatus = "completed" => db[d].processingError = Null

\* a Document is completed and still carries the message of an earlier failure
C26_CompletedWithError ==
  \E d \in Rows :
    /\ db[d].processingStatus = "completed"
    /\ db[d].processingError # Null
    /\ runs[d] >= 2

\* ------------------------------------------ keyword retrieval: cached answers
\* what the call computes for the same arguments on the Documents as they are
\* now, with nothing in the cache
FreshResult ==
  ultraFastContextRetrieval(retrieval.query, retrieval.documents,
                            retrieval.collection, {}, retrieval.dbOk).result

\* C28: for every query and document id set, the string
\* ultraFastContextRetrieval returns equals the string that scoring that exact
\* query against the documents' current extractedText would produce, whether it
\* is served from the cache or computed: two different queries over the same
\* documents never receive each other's result, and a result computed before a
\* document was re-processed is not returned afterwards
C28_ResultIsFreshScoring ==
  (retrieval.pc = "returned" /\ retrieval.dbOk) => retrieval.result = FreshResult

\* what does hold: a call that is not answered from the cache returns the fresh scoring
C28_ComputedIsFresh ==
  (retrieval.pc = "returned" /\ ~retrieval.fromCache) => retrieval.result = FreshResult

\* a call was answered from the cache with a string the fresh scoring would not give
C28_StaleAnswer ==
  /\ retrieval.pc = "returned"
  /\ retrieval.dbOk
  /\ retrieval.fromCache
  /\ retrieval.result # FreshResult

\* the stale answer is not a collision of two queries: the key holds the whole query
C28_StaleAfterReprocess ==
  /\ C28_StaleAnswer
  /\ Len(retrieval.query) <= CacheKeyChars

\* ------------------------------------------- OpenAIService.getChatCompletion
MaxRetry == 3       \* largest options.retry a caller passes
DefaultRetry == 2   \* defaultOptions.retry

\* how one call of this.openai.chat.completions.create settles: with a
\* completion, or by throwing an error that has a status or has none (a network
\* error, or the TypeError of reading the content of a completion without one)
Completion == [ok |-> TRUE, hasStatus |-> FALSE, status |-> 0]
Failure(status) == [ok |-> FALSE, hasStatus |-> TRUE, status |-> status]
NoStatus == [ok |-> FALSE, hasStatus |-> FALSE, status |-> 0]
CompletionOutcomes ==
  {Completion, NoStatus} \cup {Failure(status) : status \in {400, 401, 429, 500, 503}}

\* mutant: every failure is retried
Retryable_Always(error) == TRUE

\* error.status === 429 || error.status >= 500
Retryable(error) ==
  error.hasStatus /\ (error.status = 429 \/ error.status >= 500)

\* getChatCompletion(messages, options) is entered: attempts = 0, lastError = null
CompletionInit ==
  /\ db = [d \in DocIds |-> NoDocument]
  /\ job = [w \in Workers |-> Idle]
  /\ calls = 0
  /\ runs = [d \in DocIds |-> 0]
  /\ outcomes = [d \in DocIds |-> {}]
  /\ thisText = <<>> /\ chunkSize = 0 /\ overlap = 0 /\ chunks = <<>>
  /\ startPosition = 0 /\ thisChunks = <<>> /\ chunkPc = "skipped"
  /\ stored = <<>> /\ found = FALSE /\ updatedChunks = <<>> /\ chunkIndex = 0
  /\ embedPc = "idle" /\ history = <<>>
  /\ cosine = NoCall /\ retrieval = NoCall /\ sources = NoCall
  /\ turn \in [pc : {"loop"}, retry : 0 .. MaxRetry, attempts : {0},
               lastError : {Completion}, hasError : {FALSE},
               log : {<<>>}, throws : {0}]
  /\ cost = NoCall /\ search = NoCall

\* one iteration of while (attempts <= config.retry): the completion is
\* returned, or the catch records the error, counts the attempt and either
\* starts the delay or breaks
Attempt(outcome) ==
  /\ turn.pc = "loop"
  /\ turn.attempts <= turn.retry
  /\ turn' =
       IF outcome.ok
       THEN [turn EXCEPT !.pc = "returned", !.log = Append(@, outcome)]
       ELSE [turn EXCEPT !.pc = IF Retryable(outcome) THEN "delay" ELSE "break",
                         !.lastError = outcome, !.hasError = TRUE,
                         !.attempts = @ + 1, !.log = Append(@, outcome)]
  /\ UNCHANGED <<ingestVars, chunkVars, embedVars, cosine, retrieval, sources, cost, search>>

\* await new Promise(resolve => setTimeout(resolve, config.retryDelay * attempts))
RetryDelay ==
  /\ turn.pc = "delay"
  /\ turn' = [turn EXCEPT !.pc = "loop"]
  /\ UNCHANGED <<ingestVars, chunkVars, embedVars, cosine, retrieval, sources, cost, search>>

\* after the loop: throw new Error(`Failed to get chat completion: ...`)
ThrowFailed ==
  /\ \/ turn.pc = "break"
     \/ turn.pc = "loop" /\ ~(turn.attempts <= turn.retry)
  /\ turn' = [turn EXCEPT !.pc = "thrown", !.throws = @ + 1]
  /\ UNCHANGED <<ingestVars, chunkVars, embedVars, cosine, retrieval, sources, cost, search>>

CompletionNext ==
  \/ \E outcome \in CompletionOutcomes : Attempt(outcome)
  \/ RetryDelay
  \/ ThrowFailed

SpecCompletion == CompletionInit /\ [][CompletionNext]_vars

\* every create call settles and every timer fires
SpecCompletionFair == SpecCompletion /\ WF_vars(CompletionNext)

\* the attempts made so far obey the retry rule
AttemptsObeyRetryRule ==
  /\ Len(turn.log) <= turn.retry + 1
  /\ turn.retry = DefaultRetry => Len(turn.log) <= 3
  /\ \A k \in 1 .. (Len(turn.log) - 1) :
       ~turn.log[k].ok /\ turn.log[k].hasStatus
         /\ (turn.log[k].status = 429 \/ turn.log[k].status >= 500)
  /\ turn.throws <= 1
  /\ turn.pc = "returned" => (turn.log[Len(turn.log)].ok /\ turn.throws = 0)
  /\ turn.pc = "thrown" =>
       /\ turn.throws = 1
       /\ Len(turn.log) >= 1
       /\ \A k \in 1 .. Len(turn.log) : ~turn.log[k].ok
       /\ turn.lastError = turn.log[Len(turn.log)]

\* C29: getChatCompletion always terminates: with the default retry = 2 it
\* makes at most 3 completion attempts, makes a further attempt only after a
\* failure with status 429 or >= 500, stops after the first failure of any
\* other kind, returns the first successful result without further attempts,
\* and throws once when all attempts have failed
C29_CompletionTerminates ==
  /\ []AttemptsObeyRetryRule
  /\ [][turn.pc \in {"returned", "thrown"} => turn' = turn]_vars
  /\ <>(turn.pc \in {"returned", "thrown"})

\* with the default retry, three attempts failed with 429, 500 and 503 and the
\* call has thrown
C29_Witness ==
  /\ turn.pc = "thrown"
  /\ turn.retry = DefaultRetry
  /\ turn.log = <<Failure(429), Failure(500), Failure(503)>>

\* the second attempt succeeded after a 429
C29_WitnessRetried ==
  /\ turn.pc = "returned"
  /\ turn.log = <<Failure(429), Completion>>

\* a failure without a status ended the call after one attempt
C29_WitnessNotRetried ==
  /\ turn.pc = "thrown"
  /\ turn.retry = DefaultRetry
  /\ turn.log = <<NoStatus>>

\* ------------------------------------------------ chunkDocument: termination
\* chunkDocument runs to its end: the loop has no await
SpecChunkFair == SpecChunk /\ WF_vars(ChunkNext)

\* C30: chunkDocument terminates for every text, every chunkSize >= 1 and every
\* overlap >= 0, including overlap >= chunkSize: the window start strictly
\* increases on each iteration, so the number of chunks is finite and at most
\* len(text)
C30_ChunkingTerminates ==
  /\ [][ChunkStep => startPosition' > startPosition]_vars
  /\ [](Len(chunks) <= Len(thisText) /\ Len(thisChunks) <= Len(thisText))
  /\ <>(chunkPc \in {"saved", "skipped"})

\* a call with overlap >= chunkSize has saved as many chunks as the text has characters
C30_Witness ==
  /\ chunkPc = "saved"
  /\ overlap >= chunkSize
  /\ Len(thisText) >= 3
  /\ Len(thisChunks) = Len(thisText)

====
